---- MODULE Spec2Model ----
(***************************************************************************)
(* fxrecord: the two-phase session protocol between the recorder           *)
(* (RecorderProto) and the runner (RunnerProto), the runner's accept loop  *)
(* and the session directories under the session root.                     *)
(*                                                                         *)
(* Spec     the runner's accept loop serving the recorder's new_session    *)
(*          and resume_session over one TCP connection at a time.          *)
(* SpecCtl  the recorder alone, fed by a peer that may send any            *)
(*          RunnerMessage in any order.                                    *)
(***************************************************************************)
EXTENDS Integers, Sequences, FiniteSets, TLC

\* ------------------------------------------------------------------ bounds
\* Number of connections the accept loop serves in one behaviour.
MaxConns == 2
\* Largest profile archive, in bytes, the recorder announces.
MaxProfile == 1
\* Number of messages the free peer of SpecCtl sends on one connection.
MaxPeerMsgs == 10

\* ------------------------------------------------------- program constants
REQUEST_ID_LEN == 32

\* ------------------------------------------------------------- session ids
\* A session id is abstracted to its name, its length and whether every
\* character is ASCII alphanumeric: exactly what validate_session_id reads.
SessionId(n, l, a) == [name |-> n, len |-> l, alnum |-> a]

\* The ids thread_rng().sample(Alphanumeric) x 32 can produce.
GeneratedIds == {SessionId("A", 32, TRUE), SessionId("B", 32, TRUE)}
\* The ids a recorder may put in a ResumeSessionRequest.
RequestIds ==
    GeneratedIds \cup {SessionId("short", 5, TRUE), SessionId("bad!", 32, FALSE)}

validate_session_id_min_len(id) == id.len >= REQUEST_ID_LEN /\ id.alnum
validate_session_id(id) == id.len = REQUEST_ID_LEN /\ id.alnum

\* ------------------------------------------------------------- file system
\* Entries of one session directory <root>/<id>/.
Entries ==
    {"firefox.zip", "firefox", "firefox/firefox.exe", "firefox/distribution",
     "firefox/distribution/policies.json", "profile.zip", "unzipped_profile",
     "profile", "profile/user.js"}

RemoveDir(F, id) == {p \in F : p[1] # id}
AddEntries(F, id, es) == F \cup {<<id, e>> : e \in es}
HasEntry(F, id, e) == <<id, e>> \in F

\* ---------------------------------------------------------------- messages
DownloadStatus == <<"Downloading", "Downloaded", "Extracted">>

\* DownloadStatus::next: the index after s, 0 for None.
DownloadStatusNextSkip(s) ==
    CASE s = "Downloading" -> <<"Extracted">>
      [] OTHER -> <<>>
DownloadStatusNext(s) ==
    CASE s = "Downloading" -> <<"Downloaded">>
      [] s = "Downloaded" -> <<"Extracted">>
      [] OTHER -> <<>>

IsPrefix(a, b) == Len(a) <= Len(b) /\ a = SubSeq(b, 1, Len(a))

\* A RunnerMessage: its kind, and the Result payload (Ok(val) or
\* Err(ErrorMessage(val))); val is a tuple of string fragments.
RunnerMsg(k, isok, v) == [kind |-> k, ok |-> isok, val |-> v]

NoRequest ==
    [type |-> "none", has_profile |-> FALSE, profile_size |-> 0,
     prefs |-> FALSE, session_id |-> SessionId("", 0, FALSE), idle |-> "Skip"]
NewSessionRequest(hp, size, prefs) ==
    [type |-> "new", has_profile |-> hp, profile_size |-> size,
     prefs |-> prefs, session_id |-> SessionId("", 0, FALSE), idle |-> "Skip"]
ResumeSessionRequest(id, idle) ==
    [type |-> "resume", has_profile |-> FALSE, profile_size |-> 0,
     prefs |-> FALSE, session_id |-> id, idle |-> idle]

\* What travels from the recorder to the runner: framed RecorderMessages and,
\* during the profile transfer, raw bytes.
RecorderMsg(k, r) == [kind |-> k, req |-> r]
RawByte == RecorderMsg("byte", NoRequest)

\* ------------------------------------------------------------------ errors
\* An error value: its enum variant and the display fragments of its source.
Error(t, s) == [type |-> t, src |-> s]
NoError == Error("none", <<>>)
\* A std::io::Error, not yet converted.
IoError(s) == Error("Io", <<s>>)
\* ProtoError::Io, as produced by a failed send or a failed raw copy.
ProtoIo == Error("ProtoIo", <<"connection reset">>)
ProtoEndOfStream == Error("ProtoEndOfStream", <<>>)
\* From<io::Error> for RunnerProtoError / RecorderProtoError (`e.into()`, `?`).
Into(e) == IF e.type = "Io" THEN Error("ProtoIo", e.src) ELSE e

ResumeKindText(k) ==
    CASE k = "InvalidId" -> "ID contains invalid characters"
      [] k = "DoesNotExist" -> "does not exist to resume"
      [] k = "MissingProfile" -> "missing a profile directory"
      [] OTHER -> "missing a Firefox binary"

\* The Debug rendering of an error, which names its variant.
DisplayDebug(e) == <<e.type>> \o e.src
\* Display for RunnerProtoError (thiserror attributes): into_error_message
\* sends this string.
Display(e) ==
    CASE e.type = "EmptyProfile" -> <<"An empty profile was received">>
      [] e.type = "MissingFirefox" -> <<"No firefox.exe in build artifact">>
      [] e.type = "DisableUpdates" -> <<"Could not disable updates: ">> \o e.src
      [] e.type = "ProtoIo" -> <<"IO error: ">> \o e.src
      [] e.type = "ProtoEndOfStream" -> <<"unexpected end of stream">>
      [] OTHER -> e.src

\* --------------------------------------------------------------- variables
VARIABLES
    sessions,      \* ids of the directories under the session root
    files,         \* <<id, entry>>: entries of the session directories
    mpc,           \* fxrunner(): position in the accept loop
    conns,         \* connections accepted so far
    skip_restart,  \* Options::skip_restart
    listener,      \* the TcpListener of fxrunner(): "none", "bound" or "dropped"
    wpc,           \* RunnerProto handler: position
    wreq,          \* the Session request the handler received
    wsession,      \* session_info.id of the handler
    cleanup,       \* the scope guard is armed
    wresult,       \* what handle_request returned
    wlog,          \* RunnerMessages the handler sent, in order
    wfail,         \* the error the handler detected and reported
    wsendok,       \* the last send of the handler succeeded
    zipbytes,      \* raw bytes copied into profile.zip
    idle_runs,     \* calls of cpu_and_disk_idle by the handler
    c2w,           \* recorder -> runner: frames and raw bytes in flight
    w2c,           \* runner -> recorder: frames in flight
    wclosed,       \* the runner's end of the stream is dropped
    cclosed,       \* the recorder's end of the stream is dropped
    cpc,           \* RecorderProto: position
    creq,          \* the request the recorder issues
    cresult,       \* what new_session / resume_session returned
    clog,          \* the recorder's I/O events on the connection, in order
    cstate,        \* send_profile: the last accepted DownloadStatus
    session_id,    \* new_session: the id taken from NewSessionResponse
    cbuffered,     \* frames of w2c already in the read buffer of the recorder's Framed
    smpc,          \* DefaultSessionManager call: position
    sm_session_id, \* new_session: `session_id`; resume_session: its argument
    sm_path,       \* new_session: `path`, as its components
    tries,         \* new_session: iterations of the loop begun
    sm_ops,        \* file system calls of the session manager call, in order
    sm_result,     \* what the session manager call returned
    ipc,           \* cpu_and_disk_idle: position
    counters,      \* cpu_and_disk_idle: `counters`
    new_counters,  \* cpu_and_disk_idle: what get_disk_io_counters returned
    cpu_idle,      \* cpu_and_disk_idle: `idle`, what get_cpu_idle_time returned
    attempts,      \* cpu_and_disk_idle: iterations of the loop completed
    disk_calls,    \* calls of get_disk_io_counters
    cpu_calls,     \* calls of get_cpu_idle_time
    sleeps,        \* calls of delay_for
    iresult,       \* what cpu_and_disk_idle returned
    rpc,           \* exponential_retry: position
    wait,          \* exponential_retry: `wait`, in seconds
    retries,       \* exponential_retry: `retries`
    t_delay,       \* exponential_retry: `t`, in seconds
    last_error,    \* exponential_retry: `last_error`, <<>> for None
    f_results,     \* what the calls of `f` returned, in order
    slept,         \* the durations passed to delay_for, in order
    rresult,       \* what exponential_retry returned
    frames,        \* Proto: what the framed stream still yields, in order
    recv_kind,     \* Proto::recv::<M>: M
    recv_calls,    \* calls of Proto::recv
    recv_result,   \* what Proto::recv returned
    conv_inner,    \* a message content value
    conv_msg,      \* the wrapper built from it
    conv_target,   \* the content type the wrapper is converted to
    conv_result,   \* what TryFrom returned
    pf_pc,         \* the write-prefs step of handle_new_session: position
    wire_prefs,    \* the prefs of the NewSession frame, as JSON values
    req_prefs,     \* request.prefs, as deserialized
    pf_i,          \* write_prefs: pairs written completely
    pf_k,          \* write_prefs: write_all calls done for the current pair
    chunks,        \* write_prefs: what write_all put into `w`, call by call
    user_js,       \* <profile>/user.js: its bytes, or absent
    user_js0,      \* <profile>/user.js when the step began
    pf_ack,        \* the WritePrefs message the step sent, if any
    cli_arg,       \* parse_pref: its argument, split and read as JSON
    cli_result,    \* what parse_pref returned
    zpc,           \* the extraction step of recv_profile: position
    zarchive,      \* profile.zip: its entries (sanitized name, is_dir), in order
    zi,            \* unzip: entries handled
    zstats,        \* unzip: ZipStats so far
    zfs,           \* the file system: <<absolute path, "dir" or "file">>
    zresult        \* what recv_profile returned

fsvars == <<sessions, files>>
mainvars == <<mpc, conns, skip_restart, listener>>
wvars ==
    <<wpc, wreq, wsession, cleanup, wresult, wlog, wfail, wsendok, zipbytes,
      idle_runs>>
chanvars == <<c2w, w2c, wclosed, cclosed>>
cvars == <<cpc, creq, cresult, clog, cstate, session_id, cbuffered>>
smvars == <<smpc, sm_session_id, sm_path, tries, sm_ops, sm_result>>
idlevars ==
    <<ipc, counters, new_counters, cpu_idle, attempts, disk_calls, cpu_calls,
      sleeps, iresult>>
\* The library functions that are followed on their own.
retryvars ==
    <<rpc, wait, retries, t_delay, last_error, f_results, slept, rresult>>
msgvars ==
    <<frames, recv_kind, recv_calls, recv_result, conv_inner, conv_msg,
      conv_target, conv_result>>
prefvars ==
    <<pf_pc, wire_prefs, req_prefs, pf_i, pf_k, chunks, user_js, user_js0,
      pf_ack, cli_arg, cli_result>>
zipvars == <<zpc, zarchive, zi, zstats, zfs, zresult>>
libvars == <<idlevars, retryvars, msgvars, prefvars, zipvars>>
\* What a call of one library function leaves alone.
idle_rest == <<retryvars, msgvars, prefvars, zipvars>>
retry_rest == <<idlevars, msgvars, prefvars, zipvars>>
msg_rest == <<idlevars, retryvars, prefvars, zipvars>>
pref_rest == <<idlevars, retryvars, msgvars, zipvars>>
zip_rest == <<idlevars, retryvars, msgvars, prefvars>>
progvars == <<fsvars, mainvars, wvars, chanvars, cvars, smvars>>
vars == <<progvars, libvars>>

\* ----------------------------------------------------------------- results
Result(t, r, e) == [tag |-> t, restart |-> r, err |-> e]
NoResult == Result("none", FALSE, NoError)
Ok(restart) == Result("Ok", restart, NoError)
Err(e) == Result("Err", FALSE, e)

NoFail == [phase |-> "none", err |-> NoError]
Fail(p, e) == [phase |-> p, err |-> e]

\* The recorder's result: Ok(session id / recording path) or an error.
CResult(t, v, e) == [tag |-> t, val |-> v, err |-> e]
CNoResult == CResult("none", <<>>, NoError)
COk(v) == CResult("Ok", v, NoError)
CErr(e) == CResult("Err", <<>>, e)

\* ProtoError::Foreign(ErrorMessage(s)) and ProtoError::Unexpected.
Foreign(s) == Error("Foreign", s)
Unexpected(expected, actual) == Error("Unexpected", <<expected, actual>>)
RecvProfileMismatch(expected, received) ==
    Error("RecvProfileMismatch", <<expected, received>>)


\* --------------------------------------------------------------------- Init
\* What a call of the session manager returned: Ok(SessionInfo{id, path}) or
\* Err(kind), TooManyAttempts with its count.
SMResult(t, k, i, p, c) == [tag |-> t, kind |-> k, id |-> i, path |-> p, n |-> c]
SMNoResult == SMResult("none", "", SessionId("", 0, TRUE), <<>>, 0)
SMOk(id, path) == SMResult("Ok", "", id, path, 0)
SMErr(kind, n) == SMResult("Err", kind, SessionId("", 0, TRUE), <<>>, n)

\* No call of the session manager is being followed on its own.
SMIdle ==
    /\ smpc = "idle"
    /\ sm_session_id = SessionId("", 0, TRUE)
    /\ sm_path = <<"root">>
    /\ tries = 0
    /\ sm_ops = <<>>
    /\ sm_result = SMNoResult

\* What a PerfProvider call returned: Ok(v) or Err.
PerfOk(v) == [ok |-> TRUE, v |-> v]
PerfErr(v) == [ok |-> FALSE, v |-> v]
IoCounters(r, w) == [reads |-> r, writes |-> w]
NoCounters == PerfErr(IoCounters(0, 0))
NoIdle == PerfErr(0)

\* No call of cpu_and_disk_idle is being followed on its own.
IdleOff ==
    /\ ipc = "off"
    /\ counters = IoCounters(0, 0)
    /\ new_counters = NoCounters
    /\ cpu_idle = NoIdle
    /\ attempts = 0
    /\ disk_calls = 0
    /\ cpu_calls = 0
    /\ sleeps = 0
    /\ iresult = "none"

\* No library function is being followed on its own.
\* Result<T, RetryError<E>>: Ok(r) or Err(RetryError{source, retries}).
RetryResult(tag, v, n) == [tag |-> tag, v |-> v, retries |-> n]
NoRetryResult == RetryResult("none", "", 0)

\* No call of exponential_retry is being followed on its own.
RetryOff ==
    /\ rpc = "off"
    /\ wait = 0
    /\ retries = 0
    /\ t_delay = 0
    /\ last_error = <<>>
    /\ f_results = <<>>
    /\ slept = <<>>
    /\ rresult = NoRetryResult

\* A message content value: the struct of type k with its fields.
Inner(k, isok, v) == [type |-> k, ok |-> isok, val |-> v]
NoInner == Inner("none", FALSE, <<>>)
\* Result<M, E>.
MOk(inner) == [tag |-> "Ok", inner |-> inner, err |-> NoError]
MErr(e) == [tag |-> "Err", inner |-> NoInner, err |-> e]
MNoResult == [tag |-> "none", inner |-> NoInner, err |-> NoError]

\* No Proto and no message conversion is being followed on its own.
MsgOff ==
    /\ frames = <<>>
    /\ recv_kind = "none"
    /\ recv_calls = 0
    /\ recv_result = MNoResult
    /\ conv_inner = NoInner
    /\ conv_msg = RunnerMsg("none", FALSE, <<>>)
    /\ conv_target = "none"
    /\ conv_result = MNoResult

\* serde_json::Value: Null, Bool, Number (an integer or a float), String
\* (its characters), Array and Object.
JNull == [t |-> "Null", b |-> FALSE, n |-> 0, float |-> FALSE, s |-> <<>>]
JBool(b) == [t |-> "Bool", b |-> b, n |-> 0, float |-> FALSE, s |-> <<>>]
JNumber(n, f) == [t |-> "Number", b |-> FALSE, n |-> n, float |-> f, s |-> <<>>]
JString(s) == [t |-> "String", b |-> FALSE, n |-> 0, float |-> FALSE, s |-> s]
JArray == [t |-> "Array", b |-> FALSE, n |-> 0, float |-> FALSE, s |-> <<>>]
JObject == [t |-> "Object", b |-> FALSE, n |-> 0, float |-> FALSE, s |-> <<>>]

\* A file: absent, or its bytes.
Absent == [exists |-> FALSE, bytes |-> <<>>]
File(bytes) == [exists |-> TRUE, bytes |-> bytes]

\* What parse_pref is given: whether the argument has a colon, the text
\* before it, and what serde_json::from_str makes of the text after it.
CliArg(colon, key, isjson, v) ==
    [colon |-> colon, key |-> key, json |-> isjson, value |-> v]
\* Result<(String, PrefValue), PrefError>.
PrefOk(key, pv) == [tag |-> "Ok", key |-> key, value |-> pv, err |-> ""]
PrefErr(e) == [tag |-> "Err", key |-> <<>>, value |-> <<>>, err |-> e]
NoPrefResult == [tag |-> "none", key |-> <<>>, value |-> <<>>, err |-> ""]

\* The write-prefs step and parse_pref are not being followed on their own.
PrefsOff ==
    /\ pf_pc = "off"
    /\ wire_prefs = <<>>
    /\ req_prefs = <<>>
    /\ pf_i = 0
    /\ pf_k = 0
    /\ chunks = <<>>
    /\ user_js = Absent
    /\ user_js0 = Absent
    /\ pf_ack = <<>>
    /\ cli_arg = CliArg(FALSE, <<>>, FALSE, JNull)
    /\ cli_result = NoPrefResult

\* ZipStats: `extracted` and `top_level_dir` (<<>> for None, <<name>> for Some).
ZipStats(n, tld) == [extracted |-> n, top_level_dir |-> tld]
ZipOk(path) == [tag |-> "Ok", val |-> path, err |-> "none"]
ZipErr(e) == [tag |-> "Err", val |-> <<>>, err |-> e]
NoZipResult == [tag |-> "none", val |-> <<>>, err |-> "none"]
ZipOff ==
    /\ zpc = "off"
    /\ zarchive = <<>>
    /\ zi = 0
    /\ zstats = ZipStats(0, <<>>)
    /\ zfs = {}
    /\ zresult = NoZipResult

LibOff == IdleOff /\ RetryOff /\ MsgOff /\ PrefsOff /\ ZipOff

\* A directory a crashed earlier run may have left under the session root.
StaleId == SessionId("B", 32, TRUE)

Init ==
    /\ \E stale \in BOOLEAN :
          /\ sessions = IF stale THEN {StaleId} ELSE {}
          /\ files = IF stale THEN {<<StaleId, "firefox.zip">>} ELSE {}
    /\ mpc = "start"
    /\ conns = 0
    /\ skip_restart \in BOOLEAN
    /\ listener = "none"
    /\ wpc = "idle"
    /\ wreq = NoRequest
    /\ wsession = SessionId("", 0, FALSE)
    /\ cleanup = FALSE
    /\ wresult = NoResult
    /\ wlog = <<>>
    /\ wfail = NoFail
    /\ wsendok = TRUE
    /\ zipbytes = 0
    /\ idle_runs = 0
    /\ c2w = <<>>
    /\ w2c = <<>>
    /\ wclosed = FALSE
    /\ cclosed = FALSE
    /\ cpc = "idle"
    /\ creq = NoRequest
    /\ cresult = CNoResult
    /\ clog = <<>>
    /\ cstate = "Downloading"
    /\ session_id = <<>>
    /\ cbuffered = 0
    /\ SMIdle
    /\ LibOff

\* ------------------------------------------------------ the runner: helpers
\* cleanup_session: remove_dir_all(session_info.path).
cleanup_session_contents_only(S, F, id) == [s |-> S, f |-> RemoveDir(F, id)]
cleanup_session(S, F, id) == [s |-> S \ {id}, f |-> RemoveDir(F, id)]

\* Dropping the scope guard: an armed guard runs cleanup_session.
GuardDropKeeps(armed, S, F, id) == [s |-> S, f |-> F]
GuardDrop(armed, S, F, id) ==
    IF armed THEN cleanup_session(S, F, id) ELSE [s |-> S, f |-> F]

\* ScopeGuard::into_inner(cleanup): the guard no longer runs.
IntoInnerForgotten(armed) == armed
IntoInner(armed) == FALSE

\* `self.send(Err ack).await?; return Err(e)`: a failed send returns the
\* transport error instead of e (converted to RunnerProtoError where needed).
ErrReturnSwallow(e, sendok) == Into(e)
ErrReturn(e, sendok) == IF sendok THEN Into(e) ELSE ProtoIo

\* The handler returns: its stream is dropped and the guard, if armed, runs.
WFinish(res, armed, S, F, id) ==
    /\ wpc' = "done"
    /\ wresult' = res
    /\ cleanup' = FALSE
    /\ wclosed' = TRUE
    /\ sessions' = GuardDrop(armed, S, F, id).s
    /\ files' = GuardDrop(armed, S, F, id).f

\* RunnerProto::send: on success the frame is on the wire.
WSendTwice(m, sendok) ==
    /\ w2c' = IF sendok THEN w2c \o <<m, m>> ELSE w2c
    /\ wlog' = IF sendok THEN wlog \o <<m, m>> ELSE wlog
    /\ wsendok' = sendok
WSend(m, sendok) ==
    /\ w2c' = IF sendok THEN Append(w2c, m) ELSE w2c
    /\ wlog' = IF sendok THEN Append(wlog, m) ELSE wlog
    /\ wsendok' = sendok

\* A step that succeeded: send its Ok ack and go on, or fail on the send.
WOkStep(m, nextpc, armed, S, F, id, sendok) ==
    /\ WSend(m, sendok)
    /\ wfail' = wfail
    /\ IF sendok
       THEN /\ wpc' = nextpc
            /\ cleanup' = armed
            /\ sessions' = S
            /\ files' = F
            /\ UNCHANGED <<wresult, wclosed>>
       ELSE WFinish(Err(ProtoIo), armed, S, F, id)

\* A step that failed with e in `phase`: send an Err ack of kind `ackkind`
\* carrying e's display string, then return.
WErrStepGoesOn(ackkind, phase, e, armed, S, F, id, sendok) ==
    /\ WSend(RunnerMsg(ackkind, FALSE, Display(e)), sendok)
    /\ wfail' = Fail(phase, e)
    /\ IF sendok
       THEN /\ wpc' = wpc
            /\ cleanup' = armed
            /\ sessions' = S
            /\ files' = F
            /\ UNCHANGED <<wresult, wclosed>>
       ELSE WFinish(Err(ProtoIo), armed, S, F, id)
WErrStep(ackkind, phase, e, armed, S, F, id, sendok) ==
    /\ WSend(RunnerMsg(ackkind, FALSE, Display(e)), sendok)
    /\ wfail' = Fail(phase, e)
    /\ WFinish(Err(ErrReturn(e, sendok)), armed, S, F, id)

\* ------------------------------------------------- the runner: new session
\* handle_request: recv::<Session>() and dispatch.
WRecvSession ==
    /\ wpc = "recv_session"
    /\ UNCHANGED <<mainvars, smvars, libvars, idle_runs, wsession, wlog, wfail, wsendok, zipbytes, w2c,
                   cclosed, cvars>>
    /\ IF c2w # <<>>
       THEN /\ c2w' = Tail(c2w)
            /\ IF Head(c2w).kind = "Session"
               THEN /\ wreq' = Head(c2w).req
                    /\ wpc' = IF Head(c2w).req.type = "new"
                              THEN "new_session" ELSE "resume_session"
                    /\ UNCHANGED <<fsvars, cleanup, wresult, wclosed>>
               ELSE /\ wreq' = wreq
                    /\ WFinish(Err(Unexpected("Session", Head(c2w).kind)),
                               FALSE, sessions, files, wsession)
       ELSE /\ cclosed
            /\ UNCHANGED <<c2w, wreq>>
            /\ WFinish(Err(ProtoEndOfStream), FALSE, sessions, files, wsession)

TooManyAttempts ==
    Error("NewSession",
          <<"Could not create a request directory after ", "30", " attempts">>)
NewSessionIo == Error("NewSession", <<"access denied">>)

\* handle_new_session: session_manager.new_session(), the guard, and the
\* NewSessionResponse.
WNewSession ==
    /\ wpc = "new_session"
    /\ UNCHANGED <<mainvars, smvars, libvars, idle_runs, wreq, zipbytes, c2w, cclosed, cvars>>
    /\ \E sendok \in BOOLEAN :
          \/ \E id \in GeneratedIds \ sessions :
                /\ wsession' = id
                /\ WOkStep(RunnerMsg("NewSessionResponse", TRUE, <<id.name>>),
                           "download_start", TRUE, sessions \cup {id}, files,
                           id, sendok)
          \/ \E e \in {NewSessionIo} \cup
                      (IF sessions \cap GeneratedIds # {}
                       THEN {TooManyAttempts} ELSE {}) :
                /\ wsession' = wsession
                /\ WErrStep("NewSessionResponse", "NewSessionResponse", e,
                            FALSE, sessions, files, wsession, sendok)

\* download_build: DownloadBuild{Ok(Downloading)}.
WDownloadStart ==
    /\ wpc = "download_start"
    /\ UNCHANGED <<mainvars, smvars, libvars, idle_runs, wreq, wsession, zipbytes, c2w, cclosed, cvars>>
    /\ \E sendok \in BOOLEAN :
          WOkStep(RunnerMsg("DownloadBuild", TRUE, <<"Downloading">>),
                  "download_fetch", cleanup, sessions, files, wsession, sendok)

\* download_build_artifact: the artifact is saved as firefox.zip in the
\* session directory.
download_build_artifact_elsewhere(F, id) == F
download_build_artifact(F, id) == AddEntries(F, id, {"firefox.zip"})

\* download_build: tc.download_build_artifact, then Downloaded.
WDownloadFetch ==
    /\ wpc = "download_fetch"
    /\ UNCHANGED <<mainvars, smvars, libvars, idle_runs, wreq, wsession, zipbytes, c2w, cclosed, cvars>>
    /\ \E sendok \in BOOLEAN :
          \/ WOkStep(RunnerMsg("DownloadBuild", TRUE, <<"Downloaded">>),
                     "download_unzip", cleanup, sessions,
                     download_build_artifact(files, wsession),
                     wsession, sendok)
          \/ WErrStep("DownloadBuild", "DownloadBuild",
                      Error("Taskcluster", <<"404 Not Found">>),
                      cleanup, sessions, files, wsession, sendok)

\* download_build: unzip, the firefox.exe check, then Extracted.
WDownloadUnzip ==
    /\ wpc = "download_unzip"
    /\ UNCHANGED <<mainvars, smvars, libvars, idle_runs, wreq, wsession, zipbytes, c2w, cclosed, cvars>>
    /\ \E sendok \in BOOLEAN :
          \/ WOkStep(RunnerMsg("DownloadBuild", TRUE, <<"Extracted">>),
                     "disable_updates", cleanup, sessions,
                     AddEntries(files, wsession,
                                {"firefox", "firefox/firefox.exe"}),
                     wsession, sendok)
          \/ WErrStep("DownloadBuild", "DownloadBuild",
                      Error("Zip", <<"could not read zip archive">>),
                      cleanup, sessions, files, wsession, sendok)
          \/ \E extracted \in SUBSET {"firefox"} :
                WErrStep("DownloadBuild", "DownloadBuild",
                         Error("MissingFirefox", <<>>), cleanup, sessions,
                         AddEntries(files, wsession, extracted), wsession,
                         sendok)

\* disable_updates and the DisableUpdates ack.
WDisableUpdates ==
    /\ wpc = "disable_updates"
    /\ UNCHANGED <<mainvars, smvars, libvars, idle_runs, wreq, wsession, zipbytes, c2w, cclosed, cvars>>
    /\ \E sendok \in BOOLEAN :
          \/ WOkStep(RunnerMsg("DisableUpdates", TRUE, <<>>),
                     IF wreq.has_profile THEN "recv_profile"
                     ELSE "create_profile",
                     cleanup, sessions,
                     AddEntries(files, wsession,
                                {"firefox/distribution",
                                 "firefox/distribution/policies.json"}),
                     wsession, sendok)
          \/ \E made \in SUBSET {"firefox/distribution"} :
                WErrStep("DisableUpdates", "DisableUpdates",
                         Error("DisableUpdates", <<"access denied">>),
                         cleanup, sessions,
                         AddEntries(files, wsession, made), wsession, sendok)


\* recv_profile: RecvProfile{Ok(Downloading)}.
WRecvProfileStart ==
    /\ wpc = "recv_profile"
    /\ UNCHANGED <<mainvars, smvars, libvars, idle_runs, wreq, wsession, zipbytes, c2w, cclosed, cvars>>
    /\ \E sendok \in BOOLEAN :
          WOkStep(RunnerMsg("RecvProfile", TRUE, <<"Downloading">>),
                  "recv_profile_raw", cleanup, sessions, files, wsession,
                  sendok)

\* The ProtoError::Io that recv_profile_raw returns (`?` on an io::Error).
RawIo == Into(IoError("disk full"))

Min(a, b) == IF a < b THEN a ELSE b
\* Drop the first n elements of q.
Drop(q, n) == SubSeq(q, n + 1, Len(q))

\* recv_profile: into_inner, then recv_profile_raw up to File::create(
\* profile.zip).  A failure is acknowledged with a DownloadBuild message
\* after the rewrap.
WRecvProfileCreate ==
    /\ wpc = "recv_profile_raw"
    /\ UNCHANGED <<mainvars, smvars, libvars, idle_runs, wreq, wsession, zipbytes,
                   c2w, cclosed, cvars>>
    /\ \/ \E sendok \in BOOLEAN :
             WErrStep("DownloadBuild", "RecvProfile", RawIo, cleanup,
                      sessions, files, wsession, sendok)
       \/ /\ wpc' = "recv_profile_copy"
          /\ files' = AddEntries(files, wsession, {"profile.zip"})
          /\ UNCHANGED <<sessions, cleanup, wresult, wlog, wfail, wsendok, w2c,
                         wclosed>>

\* The copy of stream.take(profile_size) can end: the bytes are there, or the
\* stream is at its end.
CopyCanEnd == Len(c2w) >= wreq.profile_size \/ cclosed

\* recv_profile_raw: io::copy(stream.take(profile_size)) into profile.zip,
\* the rewrap, and the ack of the result.  A failure of the copy is
\* acknowledged with a DownloadBuild message.
WRecvProfileRaw ==
    /\ wpc = "recv_profile_copy"
    /\ UNCHANGED <<mainvars, smvars, libvars, idle_runs, wreq, wsession, cclosed, cvars>>
    /\ CopyCanEnd
    /\ \E sendok \in BOOLEAN :
          LET n == Min(Len(c2w), wreq.profile_size) IN
          /\ c2w' = Drop(c2w, n)
          /\ zipbytes' = n
          /\ \/ WOkStep(RunnerMsg("RecvProfile", TRUE, <<"Downloaded">>),
                        "recv_profile_unzip", cleanup, sessions, files,
                        wsession, sendok)
             \* The copy fails on a read or a write.
             \/ WErrStep("DownloadBuild", "RecvProfile", RawIo,
                         cleanup, sessions, files, wsession, sendok)

\* recv_profile: unzip into unzipped_profile/, the empty check, the rename to
\* profile/, then Extracted.  Only a complete archive can be read.
WRecvProfileUnzip ==
    /\ wpc = "recv_profile_unzip"
    /\ UNCHANGED <<mainvars, smvars, libvars, idle_runs, wreq, wsession, zipbytes, c2w, cclosed, cvars>>
    /\ LET complete == zipbytes = wreq.profile_size /\ zipbytes > 0 IN
       \E sendok \in BOOLEAN :
          \/ WErrStep("RecvProfile", "RecvProfile",
                      Error("Zip", <<"could not read zip archive">>),
                      cleanup, sessions, files, wsession, sendok)
          \/ /\ complete
             /\ \E made \in SUBSET {"unzipped_profile"} :
                   WErrStep("RecvProfile", "RecvProfile",
                            Error("EmptyProfile", <<>>), cleanup, sessions,
                            AddEntries(files, wsession, made), wsession,
                            sendok)
          \/ /\ complete
             /\ WErrStep("RecvProfile", "RecvProfile",
                         IoError("rename failed"), cleanup, sessions,
                         AddEntries(files, wsession, {"unzipped_profile"}),
                         wsession, sendok)
          \/ /\ complete
             \* rename(unzipped_profile/<top_level_dir> or unzipped_profile/)
             /\ \E top_level_dir \in BOOLEAN :
                   WOkStep(RunnerMsg("RecvProfile", TRUE, <<"Extracted">>),
                           "write_prefs", cleanup, sessions,
                           AddEntries(files, wsession,
                                      IF top_level_dir
                                      THEN {"unzipped_profile", "profile"}
                                      ELSE {"profile"}),
                           wsession, sendok)

\* No profile: session_manager.ensure_valid_profile_dir and CreateProfile.
WCreateProfile ==
    /\ wpc = "create_profile"
    /\ UNCHANGED <<mainvars, smvars, libvars, idle_runs, wreq, wsession, zipbytes, c2w, cclosed, cvars>>
    /\ \E sendok \in BOOLEAN :
          \/ WOkStep(RunnerMsg("CreateProfile", TRUE, <<>>), "write_prefs",
                     cleanup, sessions,
                     AddEntries(files, wsession, {"profile"}), wsession,
                     sendok)
          \/ WErrStep("CreateProfile", "CreateProfile",
                      Error("EnsureProfile", <<"could not ensure profile directory">>),
                      cleanup, sessions, files, wsession, sendok)

\* The prefs: open user.js (append, create), write_prefs, then WritePrefs.
WWritePrefs ==
    /\ wpc = "write_prefs"
    /\ UNCHANGED <<mainvars, smvars, libvars, idle_runs, wreq, wsession, zipbytes, c2w, cclosed, cvars>>
    /\ \E sendok \in BOOLEAN :
          \/ WOkStep(RunnerMsg("WritePrefs", TRUE, <<>>), "restart", cleanup,
                     sessions,
                     IF wreq.prefs
                     THEN AddEntries(files, wsession, {"profile/user.js"})
                     ELSE files,
                     wsession, sendok)
          \/ /\ wreq.prefs
             /\ \E made \in SUBSET {"profile/user.js"} :
                   WErrStep("WritePrefs", "WritePrefs",
                            IoError("access denied"), cleanup,
                            sessions, AddEntries(files, wsession, made),
                            wsession, sendok)

\* The guard while Restarting{Ok} is sent: into_inner comes after the send.
DisarmedBeforeSend(armed) == FALSE
ArmedDuringSend(armed) == armed

\* shutdown_handler.initiate_restart, Restarting, and the disarmed guard.
WRestart ==
    /\ wpc = "restart"
    /\ UNCHANGED <<mainvars, smvars, libvars, idle_runs, wreq, wsession, zipbytes, c2w, cclosed, cvars>>
    /\ \E sendok \in BOOLEAN :
          \/ WErrStep("Restarting", "Restarting",
                      Error("Shutdown", <<"could not shut down">>), cleanup,
                      sessions, files, wsession, sendok)
          \/ /\ WSend(RunnerMsg("Restarting", TRUE, <<>>), sendok)
             /\ wfail' = wfail
             /\ IF sendok
                THEN WFinish(Ok(TRUE), IntoInner(cleanup), sessions, files,
                             wsession)
                ELSE WFinish(Err(ProtoIo), ArmedDuringSend(cleanup), sessions,
                             files, wsession)

\* ---------------------------------------------- the runner: resume session
ResumeSessionError(id, k) ==
    Error("ResumeSession",
          <<"Invalid session ID `", id.name, "': ", ResumeKindText(k)>>)

\* The file system calls of the firefox check: `||` skips is_file when
\* firefox/ is no directory.
FirefoxChecks(F, id) ==
    IF HasEntry(F, id, "firefox") THEN <<"is_dir", "is_file">> ELSE <<"is_dir">>

\* DefaultSessionManager::resume_session: the error kind ("" for Ok), the
\* file system it leaves and the file system calls it made; its own guard
\* removes an incomplete directory.
resume_session_any_binary(S, F, id) ==
    IF ~validate_session_id(id)
    THEN [kind |-> "InvalidId", s |-> S, f |-> F, ops |-> <<>>]
    ELSE IF id \notin S
    THEN [kind |-> "DoesNotExist", s |-> S, f |-> F, ops |-> <<"is_dir">>]
    ELSE IF ~HasEntry(F, id, "profile")
    THEN [kind |-> "MissingProfile", s |-> cleanup_session(S, F, id).s,
          f |-> cleanup_session(S, F, id).f,
          ops |-> <<"is_dir", "is_dir", "remove_dir_all">>]
    ELSE [kind |-> "", s |-> S, f |-> F,
          ops |-> <<"is_dir", "is_dir">> \o FirefoxChecks(F, id)]
resume_session(S, F, id) ==
    IF ~validate_session_id(id)
    THEN [kind |-> "InvalidId", s |-> S, f |-> F, ops |-> <<>>]
    ELSE IF id \notin S
    THEN [kind |-> "DoesNotExist", s |-> S, f |-> F, ops |-> <<"is_dir">>]
    ELSE IF ~HasEntry(F, id, "profile")
    THEN [kind |-> "MissingProfile", s |-> cleanup_session(S, F, id).s,
          f |-> cleanup_session(S, F, id).f,
          ops |-> <<"is_dir", "is_dir", "remove_dir_all">>]
    ELSE IF ~HasEntry(F, id, "firefox")
            \/ ~HasEntry(F, id, "firefox/firefox.exe")
    THEN [kind |-> "MissingFirefox", s |-> cleanup_session(S, F, id).s,
          f |-> cleanup_session(S, F, id).f,
          ops |-> <<"is_dir", "is_dir">> \o FirefoxChecks(F, id)
                  \o <<"remove_dir_all">>]
    ELSE [kind |-> "", s |-> S, f |-> F,
          ops |-> <<"is_dir", "is_dir">> \o FirefoxChecks(F, id)]

\* `request.idle == Idle::Wait`: whether the handler runs the idle detector.
ShouldWaitAlways(idle) == TRUE
ShouldWait(idle) == idle = "Wait"

\* handle_resume_session: resume_session, the guard, ResumeResponse; with
\* idle = Skip the handler returns right after the ack.
WResumeSession ==
    /\ wpc = "resume_session"
    /\ UNCHANGED <<mainvars, smvars, libvars, idle_runs, wreq, zipbytes, c2w, cclosed, cvars>>
    /\ LET r == resume_session(sessions, files, wreq.session_id) IN
       \E sendok \in BOOLEAN :
          IF r.kind # ""
          THEN /\ wsession' = wsession
               /\ WErrStep("ResumeResponse", "ResumeResponse",
                           ResumeSessionError(wreq.session_id, r.kind),
                           FALSE, r.s, r.f, wsession, sendok)
          ELSE /\ wsession' = wreq.session_id
               /\ IF sendok /\ ~ShouldWait(wreq.idle)
                  THEN /\ WSend(RunnerMsg("ResumeResponse", TRUE, <<>>), sendok)
                       /\ wfail' = wfail
                       /\ WFinish(Ok(FALSE), TRUE, r.s, r.f, wreq.session_id)
                  ELSE WOkStep(RunnerMsg("ResumeResponse", TRUE, <<>>),
                               "wait_for_idle", TRUE, r.s, r.f,
                               wreq.session_id, sendok)

WaitForIdleErrors ==
    {Error("WaitForIdle", <<"timed out waiting for CPU and disk to become idle">>),
     Error("WaitForIdle", <<"disk io error">>),
     Error("WaitForIdle", <<"cpu time error">>)}

\* handle_resume_session with idle = Wait: cpu_and_disk_idle, WaitForIdle,
\* and the return; the guard `_cleanup` is still armed when it is dropped.
WWaitForIdle ==
    /\ wpc = "wait_for_idle"
    /\ UNCHANGED <<mainvars, smvars, libvars, wreq, wsession, zipbytes, c2w, cclosed, cvars>>
    /\ idle_runs' = idle_runs + 1
    /\ \E sendok \in BOOLEAN :
          \/ \E e \in WaitForIdleErrors :
                WErrStep("WaitForIdle", "WaitForIdle", e, cleanup, sessions,
                         files, wsession, sendok)
          \/ /\ WSend(RunnerMsg("WaitForIdle", TRUE, <<>>), sendok)
             /\ wfail' = wfail
             /\ WFinish(IF sendok THEN Ok(FALSE) ELSE Err(ProtoIo), cleanup,
                        sessions, files, wsession)

\* ----------------------------------------------------- fxrunner(): the loop
\* listener.accept() meets the recorder's TcpStream::connect: a fresh
\* connection, a fresh RunnerProto and a fresh RecorderProto.
Connect ==
    /\ mpc = "accept"
    /\ cpc \in {"idle", "done"}
    /\ conns < MaxConns
    /\ mpc' = "handling"
    /\ conns' = conns + 1
    /\ wpc' = "recv_session"
    /\ wreq' = NoRequest
    /\ wsession' = SessionId("", 0, FALSE)
    /\ cleanup' = FALSE
    /\ wresult' = NoResult
    /\ wlog' = <<>>
    /\ wfail' = NoFail
    /\ wsendok' = TRUE
    /\ zipbytes' = 0
    /\ idle_runs' = 0
    /\ c2w' = <<>>
    /\ w2c' = <<>>
    /\ wclosed' = FALSE
    /\ cclosed' = FALSE
    /\ cpc' = "start"
    /\ creq' = NoRequest
    /\ cresult' = CNoResult
    /\ clog' = <<>>
    /\ cstate' = "Downloading"
    /\ session_id' = <<>>
    /\ cbuffered' = 0
    /\ UNCHANGED <<fsvars, skip_restart, listener, smvars, libvars>>

\* cleanup_session_dir: remove every entry under the session root.
cleanup_session_dir_noop(S, F) == [s |-> S, f |-> F]
cleanup_session_dir(S, F) == [s |-> {}, f |-> {}]

\* handle_request(..).await: the loop goes on when the handler has returned.
HandlerSpawned == mpc = "handling"
HandlerReturned == mpc = "handling" /\ wpc = "done"

\* `if restart { break; }`: only Ok(true) leaves the inner loop.
BreaksAlways(result) == TRUE
Breaks(result) == result.tag = "Ok" /\ result.restart

\* The handler returned: Ok(true) breaks out of the accept loop and the
\* listener is dropped; anything else sweeps the session root and goes round
\* the inner loop to listener.accept() again.
MainHandled ==
    /\ HandlerReturned
    /\ IF Breaks(wresult)
       THEN /\ mpc' = "restart"
            /\ listener' = "dropped"
            /\ UNCHANGED fsvars
       ELSE /\ mpc' = "accept"
            /\ listener' = listener
            /\ sessions' = cleanup_session_dir(sessions, files).s
            /\ files' = cleanup_session_dir(sessions, files).f
    /\ UNCHANGED <<conns, skip_restart, wvars, chanvars, cvars, smvars, libvars>>

\* After the drop: with skip_restart the outer loop waits 30 s and binds a
\* new listener, otherwise fxrunner returns Ok(()), the machine reboots and
\* fxrunner starts again.  Either way the session root is left as it is.
MainRestart ==
    /\ mpc = "restart"
    /\ mpc' = IF skip_restart THEN "accept" ELSE "start"
    /\ listener' = IF skip_restart THEN "bound" ELSE "none"
    /\ UNCHANGED <<fsvars, conns, skip_restart, wvars, chanvars, cvars, smvars, libvars>>

\* create_dir_all(session_dir): the root exists afterwards; what is under it
\* stays.
create_dir_all_fresh(S, F) == [s |-> {}, f |-> {}]
create_dir_all(S, F) == [s |-> S, f |-> F]

\* fxrunner() from its first line to the bind of the listener: read_config,
\* create_dir_all of the session root, TcpListener::bind.
MainStart ==
    /\ mpc = "start"
    /\ mpc' = "accept"
    /\ listener' = "bound"
    /\ sessions' = create_dir_all(sessions, files).s
    /\ files' = create_dir_all(sessions, files).f
    /\ UNCHANGED <<conns, skip_restart, wvars, chanvars, cvars, smvars, libvars>>


\* ------------------------------------------------------------ the recorder
\* One I/O event of the recorder on its connection.
Event(e, m) == [ev |-> e, msg |-> m]
SentSession == Event("send", RunnerMsg("Session", TRUE, <<>>))
\* The raw write of send_profile_impl, with the bytes it put on the stream.
SentRaw(n) == Event("raw", RunnerMsg("profile", TRUE, [i \in 1..n |-> "byte"]))

\* new_session / resume_session return: the RecorderProto is dropped.
CFinish(res) ==
    /\ cpc' = "done"
    /\ cresult' = res
    /\ cclosed' = TRUE

\* The requests a recorder can issue.
Requests ==
    {NewSessionRequest(FALSE, 0, prefs) : prefs \in BOOLEAN}
    \cup {NewSessionRequest(TRUE, n, prefs) :
             n \in 0..MaxProfile, prefs \in BOOLEAN}
    \cup {ResumeSessionRequest(id, idle) :
             id \in RequestIds, idle \in {"Wait", "Skip"}}

\* new_session up to send::<Session> (the metadata() of the profile first),
\* and resume_session up to send::<Session>.
CStart ==
    /\ cpc = "start"
    /\ UNCHANGED <<fsvars, mainvars, smvars, libvars, wvars, w2c, wclosed, cstate, session_id,
                   cbuffered>>
    /\ \E req \in Requests :
          /\ creq' = req
          /\ \/ /\ req.has_profile
                /\ CFinish(CErr(Into(IoError("not found"))))
                /\ UNCHANGED <<c2w, clog>>
             \/ \E sendok \in BOOLEAN :
                   IF sendok
                   THEN /\ c2w' = Append(c2w, RecorderMsg("Session", req))
                        /\ clog' = Append(clog, SentSession)
                        /\ cpc' = IF req.type = "new"
                                  THEN "recv_new_session_response"
                                  ELSE "recv_resume_response"
                        /\ UNCHANGED <<cresult, cclosed>>
                   ELSE /\ CFinish(CErr(ProtoIo))
                        /\ UNCHANGED <<c2w, clog>>

\* The kind each typed recv of the recorder expects.
ExpectedKindSwapped(pc) ==
    CASE pc = "recv_new_session_response" -> "NewSessionResponse"
      [] pc = "recv_download_build" -> "DownloadBuild"
      [] pc = "recv_disable_updates" -> "DisableUpdates"
      [] pc = "recv_profile_first" -> "RecvProfile"
      [] pc = "recv_profile_loop" -> "RecvProfile"
      [] pc = "recv_create_profile" -> "CreateProfile"
      [] pc = "recv_write_prefs" -> "Restarting"
      [] pc = "recv_restarting" -> "WritePrefs"
      [] pc = "recv_resume_response" -> "ResumeResponse"
      [] pc = "recv_wait_for_idle" -> "WaitForIdle"
      [] pc = "recv_started_firefox" -> "StartedFirefox"
      [] pc = "recv_stopped_firefox" -> "StoppedFirefox"
      [] pc = "recv_session_finished" -> "SessionFinished"
      [] OTHER -> "none"
ExpectedKind(pc) ==
    CASE pc = "recv_new_session_response" -> "NewSessionResponse"
      [] pc = "recv_download_build" -> "DownloadBuild"
      [] pc = "recv_disable_updates" -> "DisableUpdates"
      [] pc = "recv_profile_first" -> "RecvProfile"
      [] pc = "recv_profile_loop" -> "RecvProfile"
      [] pc = "recv_create_profile" -> "CreateProfile"
      [] pc = "recv_write_prefs" -> "WritePrefs"
      [] pc = "recv_restarting" -> "Restarting"
      [] pc = "recv_resume_response" -> "ResumeResponse"
      [] pc = "recv_wait_for_idle" -> "WaitForIdle"
      [] pc = "recv_started_firefox" -> "StartedFirefox"
      [] pc = "recv_stopped_firefox" -> "StoppedFirefox"
      [] pc = "recv_session_finished" -> "SessionFinished"
      [] OTHER -> "none"

RecvStates ==
    {"recv_new_session_response", "recv_download_build",
     "recv_disable_updates", "recv_profile_first", "recv_profile_loop",
     "recv_create_profile", "recv_write_prefs", "recv_restarting",
     "recv_resume_response", "recv_wait_for_idle", "recv_started_firefox",
     "recv_stopped_firefox", "recv_session_finished"}

\* The phases whose Err payload is only logged (warn!) by resume_session.
LoggedOnlyNone(pc) == FALSE
LoggedOnly(pc) == pc \in {"recv_stopped_firefox", "recv_session_finished"}

\* new_session's DownloadBuild loop: every Ok status is accepted and only
\* Extracted leaves the loop.
DownloadBuildNextStrict(m, seen) ==
    IF ~IsPrefix(seen \o m.val, DownloadStatus) THEN "mismatch"
    ELSE IF m.val = <<"Extracted">> THEN "recv_disable_updates"
    ELSE "recv_download_build"
DownloadBuildNext(m, seen) ==
    IF m.val = <<"Extracted">> THEN "recv_disable_updates"
    ELSE "recv_download_build"

\* The Ok DownloadBuild statuses the recorder has received so far.
SeenBuild(log) ==
    LET idx == {i \in 1..Len(log) :
                   log[i].ev = "recv" /\ log[i].msg.kind = "DownloadBuild"
                   /\ log[i].msg.ok}
        F[i \in 0..Len(log)] ==
            IF i = 0 THEN <<>>
            ELSE IF i \in idx THEN F[i - 1] \o log[i].msg.val ELSE F[i - 1]
    IN F[Len(log)]

\* Where an Ok payload received at pc leads ("mismatch": a
\* RecvProfileMismatch, "return": Ok(..) is returned).
AfterOk(pc, m) ==
    CASE pc = "recv_new_session_response" -> "recv_download_build"
      [] pc = "recv_download_build" -> DownloadBuildNext(m, SeenBuild(clog))
      [] pc = "recv_disable_updates" ->
            IF creq.has_profile THEN "recv_profile_first"
            ELSE "recv_create_profile"
      [] pc = "recv_profile_first" ->
            IF m.val = <<"Downloading">> THEN "send_profile" ELSE "mismatch"
      [] pc = "recv_profile_loop" ->
            IF DownloadStatusNext(cstate) # m.val THEN "mismatch"
            ELSE IF m.val = <<"Extracted">> THEN "recv_write_prefs"
            ELSE "recv_profile_loop"
      [] pc = "recv_create_profile" -> "recv_write_prefs"
      [] pc = "recv_write_prefs" -> "recv_restarting"
      [] pc = "recv_restarting" -> "return"
      [] pc = "recv_resume_response" ->
            IF creq.idle = "Wait" THEN "recv_wait_for_idle"
            ELSE "start_recording"
      [] pc = "recv_wait_for_idle" -> "start_recording"
      [] pc = "recv_started_firefox" -> "wait_for_recording"
      [] pc = "recv_stopped_firefox" -> "recv_session_finished"
      [] OTHER -> "return"

\* The status the mismatch error names as expected.
ExpectedStatus(pc) ==
    IF pc = "recv_profile_first" THEN <<"Downloading">>
    ELSE DownloadStatusNext(cstate)

\* new_session binds session_id to the payload of NewSessionResponse only.
StoreLastPayload(pc, m, sid) == IF m.ok THEN m.val ELSE sid
StoreSessionId(pc, m, sid) ==
    IF pc = "recv_new_session_response" /\ m.ok THEN m.val ELSE sid

\* The read that yields a frame may bring the frames behind it into the
\* read buffer of the Framed as well.  The count is kept for the one recv
\* that into_inner follows, that of RecvProfile{Downloading}.
ReadAhead(pc, rest) ==
    IF pc = "recv_profile_first" THEN 0..Len(rest) ELSE {0}

\* Proto::into_inner: the Framed and its read buffer are dropped, the frames
\* still on the socket stay.
IntoInnerStream(q, buffered) == Drop(q, buffered)

\* Proto::recv::<M>() and what the recorder does with the message.
CRecv ==
    /\ cpc \in RecvStates
    /\ UNCHANGED <<fsvars, mainvars, smvars, libvars, wvars, c2w, wclosed, creq>>
    /\ IF w2c = <<>>
       THEN /\ wclosed
            /\ CFinish(CErr(ProtoEndOfStream))
            /\ UNCHANGED <<w2c, clog, cstate, session_id, cbuffered>>
       ELSE LET m == Head(w2c) IN
            /\ w2c' = Tail(w2c)
            /\ cbuffered' \in ReadAhead(cpc, Tail(w2c))
            /\ IF m.kind # ExpectedKind(cpc)
               THEN /\ clog' = Append(clog, Event("unexpected", m))
                    /\ CFinish(CErr(Unexpected(ExpectedKind(cpc), m.kind)))
                    /\ UNCHANGED <<cstate, session_id>>
               ELSE /\ clog' = Append(clog, Event("recv", m))
                    /\ session_id' = StoreSessionId(cpc, m, session_id)
                    /\ cstate' =
                          IF cpc = "recv_profile_loop" /\ m.ok
                             /\ AfterOk(cpc, m) # "mismatch"
                          THEN m.val[1] ELSE cstate
                    /\ LET next == IF m.ok \/ LoggedOnly(cpc)
                                   THEN AfterOk(cpc, m) ELSE "foreign" IN
                       CASE next = "foreign" -> CFinish(CErr(Foreign(m.val)))
                         [] next = "mismatch" ->
                               CFinish(CErr(RecvProfileMismatch(
                                   ExpectedStatus(cpc), m.val)))
                         [] next = "return" ->
                               CFinish(COk(IF cpc = "recv_restarting"
                                           THEN session_id
                                           ELSE <<"recording.mp4">>))
                         [] OTHER -> /\ cpc' = next
                                     /\ UNCHANGED <<cresult, cclosed>>

\* send_profile: into_inner, send_profile_impl (File::open, io::copy of the
\* whole file onto the stream), rewrap.  The copy runs to the end of the
\* file as it is now, whatever length metadata() reported earlier.
CSendProfile ==
    /\ cpc = "send_profile"
    /\ UNCHANGED <<fsvars, mainvars, smvars, libvars, wvars, wclosed, creq, session_id>>
    /\ w2c' = IntoInnerStream(w2c, cbuffered)
    /\ cbuffered' = 0
    /\ \/ /\ CFinish(CErr(Into(IoError("not found"))))
          /\ UNCHANGED <<c2w, clog, cstate>>
       \/ \E file_len \in 0..MaxProfile, written \in 0..MaxProfile :
             /\ written <= file_len
             /\ c2w' = c2w \o [i \in 1..written |-> RawByte]
             /\ clog' = Append(clog, SentRaw(written))
             /\ IF written = file_len
                THEN /\ cpc' = "recv_profile_loop"
                     /\ cstate' = "Downloading"
                     /\ UNCHANGED <<cresult, cclosed>>
                ELSE /\ CFinish(CErr(ProtoIo))
                     /\ cstate' = cstate

\* resume_session: recorder.start_recording, then send(StartFirefox).
CStartRecording ==
    /\ cpc = "start_recording"
    /\ UNCHANGED <<fsvars, mainvars, smvars, libvars, wvars, w2c, wclosed, creq, cstate,
                   session_id, cbuffered>>
    /\ \/ /\ CFinish(CErr(Error("Recording", <<"ffmpeg failed">>)))
          /\ UNCHANGED <<c2w, clog>>
       \/ \E sendok \in BOOLEAN :
             IF sendok
             THEN /\ c2w' = Append(c2w, RecorderMsg("StartFirefox", NoRequest))
                  /\ clog' = Append(clog, Event("send",
                                 RunnerMsg("StartFirefox", TRUE, <<>>)))
                  /\ cpc' = "recv_started_firefox"
                  /\ UNCHANGED <<cresult, cclosed>>
             ELSE /\ CFinish(CErr(ProtoIo))
                  /\ UNCHANGED <<c2w, clog>>

\* resume_session: recorder.wait_for_recording_finished, send(StopFirefox).
CWaitForRecording ==
    /\ cpc = "wait_for_recording"
    /\ UNCHANGED <<fsvars, mainvars, smvars, libvars, wvars, w2c, wclosed, creq, cstate,
                   session_id, cbuffered>>
    /\ \/ /\ CFinish(CErr(Error("Recording", <<"ffmpeg failed">>)))
          /\ UNCHANGED <<c2w, clog>>
       \/ \E sendok \in BOOLEAN :
             IF sendok
             THEN /\ c2w' = Append(c2w, RecorderMsg("StopFirefox", NoRequest))
                  /\ clog' = Append(clog, Event("send",
                                 RunnerMsg("StopFirefox", TRUE, <<>>)))
                  /\ cpc' = "recv_stopped_firefox"
                  /\ UNCHANGED <<cresult, cclosed>>
             ELSE /\ CFinish(CErr(ProtoIo))
                  /\ UNCHANGED <<c2w, clog>>


Runner ==
    \/ WRecvSession \/ WNewSession \/ WDownloadStart \/ WDownloadFetch
    \/ WDownloadUnzip \/ WDisableUpdates \/ WRecvProfileStart
    \/ WRecvProfileCreate \/ WRecvProfileRaw \/ WRecvProfileUnzip \/ WCreateProfile \/ WWritePrefs
    \/ WRestart \/ WResumeSession \/ WWaitForIdle

\* The runner of this repository never answers StartFirefox, so the
\* recorder's steps after it are exercised in SpecCtl only.
Next ==
    \/ MainStart \/ Connect \/ MainHandled \/ MainRestart \/ Runner
    \/ CStart \/ CRecv \/ CSendProfile \/ CStartRecording

Spec == Init /\ [][Next]_vars

\* ------------------------------------------ the recorder against any peer
RunnerKinds ==
    {"NewSessionResponse", "DownloadBuild", "DisableUpdates", "RecvProfile",
     "CreateProfile", "WritePrefs", "Restarting", "ResumeResponse",
     "WaitForIdle", "StartedFirefox", "StoppedFirefox", "SessionFinished"}

OkPayloads(k) ==
    CASE k = "NewSessionResponse" -> {<<"A">>}
      [] k \in {"DownloadBuild", "RecvProfile"} ->
            {<<"Downloading">>, <<"Downloaded">>, <<"Extracted">>}
      [] OTHER -> {<<>>}

PeerMsgs ==
    {RunnerMsg(k, FALSE, <<"remote failure">>) : k \in RunnerKinds}
    \cup UNION {{RunnerMsg(k, TRUE, v) : v \in OkPayloads(k)} : k \in RunnerKinds}

InitCtl ==
    /\ sessions = {}
    /\ files = {}
    /\ mpc = "peer"
    /\ conns = 1
    /\ skip_restart = FALSE
    /\ listener = "none"
    /\ wpc = "idle"
    /\ wreq = NoRequest
    /\ wsession = SessionId("", 0, FALSE)
    /\ cleanup = FALSE
    /\ wresult = NoResult
    /\ wlog = <<>>
    /\ wfail = NoFail
    /\ wsendok = TRUE
    /\ zipbytes = 0
    /\ idle_runs = 0
    /\ c2w = <<>>
    /\ w2c = <<>>
    /\ wclosed = FALSE
    /\ cclosed = FALSE
    /\ cpc = "start"
    /\ creq = NoRequest
    /\ cresult = CNoResult
    /\ clog = <<>>
    /\ cstate = "Downloading"
    /\ session_id = <<>>
    /\ cbuffered = 0
    /\ SMIdle
    /\ LibOff

\* The peer puts one more frame on the wire once the last one was taken.
PeerSend ==
    /\ mpc = "peer"
    /\ ~wclosed
    /\ cpc \in RecvStates
    /\ w2c = <<>>
    /\ Len(wlog) < MaxPeerMsgs
    /\ \E m \in PeerMsgs :
          /\ w2c' = <<m>>
          /\ wlog' = Append(wlog, m)
    /\ UNCHANGED <<fsvars, mainvars, smvars, libvars, wpc, wreq, wsession, cleanup, wresult,
                   wfail, wsendok, zipbytes, idle_runs, c2w, wclosed, cclosed,
                   cvars>>

\* The peer drops its end of the stream.
PeerClose ==
    /\ mpc = "peer"
    /\ ~wclosed
    /\ wclosed' = TRUE
    /\ UNCHANGED <<fsvars, mainvars, smvars, libvars, wvars, c2w, w2c, cclosed, cvars>>

NextCtl ==
    \/ CStart \/ CRecv \/ CSendProfile \/ CStartRecording
    \/ CWaitForRecording \/ PeerSend \/ PeerClose

SpecCtl == InitCtl /\ [][NextCtl]_vars


\* ------------------------------------------- the session manager on its own
\* DefaultSessionManager::new_session and resume_session, called on any
\* session root.
TRIES == 30

\* The ids a caller may pass to resume_session: also one character short of
\* and one character beyond REQUEST_ID_LEN.
ResumeIds ==
    RequestIds \cup {SessionId("len31", REQUEST_ID_LEN - 1, TRUE),
                     SessionId("len33", REQUEST_ID_LEN + 1, TRUE)}
\* Directories that may lie under the session root, and what resume_session
\* looks for in them.
RootDirs == GeneratedIds \cup {SessionId("short", 5, TRUE)}
ResumeEntries == {"profile", "firefox", "firefox/firefox.exe"}

InitSM ==
    /\ sessions \in SUBSET RootDirs
    /\ files \in SUBSET (sessions \X ResumeEntries)
    /\ \A id \in sessions :
          HasEntry(files, id, "firefox/firefox.exe")
              => HasEntry(files, id, "firefox")
    /\ mpc = "sm"
    /\ conns = 0
    /\ skip_restart = FALSE
    /\ listener = "none"
    /\ wpc = "idle"
    /\ wreq = NoRequest
    /\ wsession = SessionId("", 0, FALSE)
    /\ cleanup = FALSE
    /\ wresult = NoResult
    /\ wlog = <<>>
    /\ wfail = NoFail
    /\ wsendok = TRUE
    /\ zipbytes = 0
    /\ idle_runs = 0
    /\ c2w = <<>>
    /\ w2c = <<>>
    /\ wclosed = FALSE
    /\ cclosed = FALSE
    /\ cpc = "idle"
    /\ creq = NoRequest
    /\ cresult = CNoResult
    /\ clog = <<>>
    /\ cstate = "Downloading"
    /\ session_id = <<>>
    /\ cbuffered = 0
    /\ SMIdle
    /\ LibOff

\* session_id.extend(32 samples of Alphanumeric), session_id.clear(),
\* path.push(&session_id) and path.pop().
Extend(id, name) == SessionId(id.name \o name, id.len + REQUEST_ID_LEN, id.alnum)
ClearForgotten(id) == id
Clear(id) == SessionId("", 0, TRUE)
Push(path, id) == Append(path, id.name)
Pop(path) == SubSeq(path, 1, Len(path) - 1)

\* No call is running: the manager was just built or its last call returned.
SMCallable == smpc \in {"idle", "new_returned", "resume_returned"}

\* new_session up to the loop.
SMNewSession ==
    /\ mpc = "sm"
    /\ SMCallable
    /\ smpc' = "new_loop"
    /\ sm_session_id' = SessionId("", 0, TRUE)
    /\ sm_path' = <<"root">>
    /\ tries' = 0
    /\ sm_ops' = <<>>
    /\ sm_result' = SMNoResult
    /\ UNCHANGED <<fsvars, mainvars, wvars, chanvars, cvars, libvars>>

\* One iteration of `for _ in 0..TRIES`: a fresh id, create_dir, and either
\* the retry on AlreadyExists, the return of another error, or the return of
\* the SessionInfo.
SMNewAttempt ==
    /\ mpc = "sm"
    /\ smpc = "new_loop"
    /\ tries < TRIES
    /\ tries' = tries + 1
    /\ sm_ops' = Append(sm_ops, "create_dir")
    /\ UNCHANGED <<mainvars, wvars, chanvars, cvars, libvars>>
    /\ \E name \in {"A", "B"} :
          LET id == Extend(sm_session_id, name)
              path == Push(sm_path, id)
          IN \/ /\ id \in sessions
                /\ sm_session_id' = Clear(id)
                /\ sm_path' = Pop(path)
                /\ UNCHANGED <<fsvars, smpc, sm_result>>
             \/ /\ sm_session_id' = id
                /\ sm_path' = path
                /\ smpc' = "new_returned"
                /\ sm_result' = SMErr("Io", 0)
                /\ UNCHANGED fsvars
             \/ /\ id \notin sessions
                /\ sm_session_id' = id
                /\ sm_path' = path
                /\ smpc' = "new_returned"
                /\ sessions' = sessions \cup {id}
                /\ files' = files
                /\ sm_result' = SMOk(id, path)

\* The loop ran TRIES times without a return.
SMNewExhausted ==
    /\ mpc = "sm"
    /\ smpc = "new_loop"
    /\ tries = TRIES
    /\ smpc' = "new_returned"
    /\ sm_result' = SMErr("TooManyAttempts", TRIES)
    /\ UNCHANGED <<fsvars, mainvars, wvars, chanvars, cvars, libvars, sm_session_id,
                   sm_path, tries, sm_ops>>

\* resume_session(session_id), from the call to the return.
SMResumeSession ==
    /\ mpc = "sm"
    /\ SMCallable
    /\ \E id \in ResumeIds :
          LET r == resume_session(sessions, files, id) IN
          /\ sm_session_id' = id
          /\ sessions' = r.s
          /\ files' = r.f
          /\ sm_ops' = r.ops
          /\ sm_result' = IF r.kind = "" THEN SMOk(id, <<"root", id.name>>)
                          ELSE SMErr(r.kind, 0)
    /\ smpc' = "resume_returned"
    /\ sm_path' = <<"root">>
    /\ tries' = 0
    /\ UNCHANGED <<mainvars, wvars, chanvars, cvars, libvars>>

NextSM ==
    \/ SMNewSession \/ SMNewAttempt \/ SMNewExhausted \/ SMResumeSession

SpecSM == InitSM /\ [][NextSM]_vars
\* ------------------------------------------- cpu_and_disk_idle on its own
\* PerfProvider::ATTEMPT_COUNT (the default of the trait) and
\* TARGET_CPU_IDLE_PERCENTAGE, in hundredths.
ATTEMPT_COUNT == 30
TARGET_CPU_IDLE_PERCENTAGE == 95

\* IoCounters.reads and .writes are u32; the model keeps CounterWidth bits.
CounterWidth == 2
Counter == 0..(2 ^ CounterWidth - 1)
\* The f64 values get_cpu_idle_time may return, in hundredths; NaN is what
\* idle_time / total_time gives for 0 / 0.
NaN == -1
IdleTimes == {NaN, 0, 94, 95, 99, 100}

\* `idle >= TARGET_CPU_IDLE_PERCENTAGE` on f64: false for NaN.
IdleAbove(x) == x # NaN /\ x > TARGET_CPU_IDLE_PERCENTAGE
IdleAtLeast(x) == x # NaN /\ x >= TARGET_CPU_IDLE_PERCENTAGE

\* `a - b` on u32: a build with overflow checks panics when b > a, one
\* without wraps.
SubWraps(a, b) == (a - b) % (2 ^ CounterWidth)
SubPanics(a, b) == b > a

\* `for _ in 0..P::ATTEMPT_COUNT`: the range still has an element after i
\* iterations.
RangeInclusiveHas(i) == i <= ATTEMPT_COUNT
RangeHas(i) == i < ATTEMPT_COUNT

\* The runner, the recorder and the session manager are not running.
ProgOff ==
    /\ sessions = {}
    /\ files = {}
    /\ mpc = "lib"
    /\ conns = 0
    /\ skip_restart = FALSE
    /\ listener = "none"
    /\ wpc = "idle"
    /\ wreq = NoRequest
    /\ wsession = SessionId("", 0, FALSE)
    /\ cleanup = FALSE
    /\ wresult = NoResult
    /\ wlog = <<>>
    /\ wfail = NoFail
    /\ wsendok = TRUE
    /\ zipbytes = 0
    /\ idle_runs = 0
    /\ c2w = <<>>
    /\ w2c = <<>>
    /\ wclosed = FALSE
    /\ cclosed = FALSE
    /\ cpc = "idle"
    /\ creq = NoRequest
    /\ cresult = CNoResult
    /\ clog = <<>>
    /\ cstate = "Downloading"
    /\ session_id = <<>>
    /\ cbuffered = 0
    /\ SMIdle

InitIdle ==
    /\ ProgOff
    /\ LibOff

\* The call, up to the loop: the first get_disk_io_counters.
IdleFirstSample ==
    /\ mpc = "lib"
    /\ ipc = "off"
    /\ disk_calls' = disk_calls + 1
    /\ \/ /\ new_counters' = PerfErr(IoCounters(0, 0))
          /\ ipc' = "returned"
          /\ iresult' = "DiskIoError"
          /\ UNCHANGED counters
       \/ \E r \in Counter, w \in Counter :
             /\ new_counters' = PerfOk(IoCounters(r, w))
             /\ counters' = IoCounters(r, w)
             /\ ipc' = "loop"
             /\ UNCHANGED iresult
    /\ UNCHANGED <<progvars, idle_rest, cpu_idle, attempts, cpu_calls, sleeps>>

\* One iteration of the loop: delay_for, the two samples, the deltas and the
\* test.
IdleIteration ==
    /\ mpc = "lib"
    /\ ipc = "loop"
    /\ RangeHas(attempts)
    /\ sleeps' = sleeps + 1
    /\ disk_calls' = disk_calls + 1
    /\ UNCHANGED <<progvars, idle_rest>>
    /\ \/ /\ new_counters' = PerfErr(IoCounters(0, 0))
          /\ ipc' = "returned"
          /\ iresult' = "DiskIoError"
          /\ UNCHANGED <<counters, cpu_idle, attempts, cpu_calls>>
       \/ \E r \in Counter, w \in Counter :
             /\ new_counters' = PerfOk(IoCounters(r, w))
             /\ cpu_calls' = cpu_calls + 1
             /\ \/ /\ cpu_idle' = PerfErr(0)
                   /\ ipc' = "returned"
                   /\ iresult' = "CpuTimeError"
                   /\ UNCHANGED <<counters, attempts>>
                \/ \E i \in IdleTimes :
                      /\ cpu_idle' = PerfOk(i)
                      /\ \/ /\ SubPanics(r, counters.reads)
                               \/ SubPanics(w, counters.writes)
                            /\ ipc' = "panicked"
                            /\ UNCHANGED <<counters, attempts, iresult>>
                         \/ LET delta_reads == SubWraps(r, counters.reads)
                                delta_writes == SubWraps(w, counters.writes)
                            IN IF /\ IdleAtLeast(i)
                                  /\ delta_reads = 0
                                  /\ delta_writes = 0
                               THEN /\ ipc' = "returned"
                                    /\ iresult' = "Ok"
                                    /\ UNCHANGED <<counters, attempts>>
                               ELSE /\ counters' = IoCounters(r, w)
                                    /\ attempts' = attempts + 1
                                    /\ UNCHANGED <<ipc, iresult>>

\* The range is exhausted.
IdleTimeout ==
    /\ mpc = "lib"
    /\ ipc = "loop"
    /\ ~RangeHas(attempts)
    /\ ipc' = "returned"
    /\ iresult' = "TimeoutError"
    /\ UNCHANGED <<progvars, idle_rest, counters, new_counters, cpu_idle, attempts,
                   disk_calls, cpu_calls, sleeps>>

NextIdle == IdleFirstSample \/ IdleIteration \/ IdleTimeout

SpecIdle == InitIdle /\ [][NextIdle]_vars
\* ------------------------------------------- exponential_retry on its own
\* Largest `retries` a caller passes; record() passes RECONNECT_RETRIES with
\* RECONNECT_WAIT seconds.
MaxRetries == 4
RECONNECT_WAIT == 30
RECONNECT_RETRIES == 4

\* The errors `f` may fail with and the value it may succeed with.
RetryErrors == {"refused", "timed out"}
FOk(r) == [ok |-> TRUE, v |-> r]
FErr(e) == [ok |-> FALSE, v |-> e]

\* `t *= 2`.
BackoffNone(d) == d
Backoff(d) == d * 2

\* `last_error = Some(e)`.
KeepFirst(last, e) == IF last = <<>> THEN <<e>> ELSE last
SomeError(last, e) == <<e>>

InitRetry ==
    /\ ProgOff
    /\ ZipOff
    /\ IdleOff
    /\ MsgOff
    /\ PrefsOff
    /\ rpc = "start"
    /\ wait \in {1, RECONNECT_WAIT}
    /\ retries \in 0..MaxRetries
    /\ t_delay = 0
    /\ last_error = <<>>
    /\ f_results = <<>>
    /\ slept = <<>>
    /\ rresult = NoRetryResult

\* `let mut t = wait; let mut last_error = None;`
RetryStart ==
    /\ mpc = "lib"
    /\ rpc = "start"
    /\ t_delay' = wait
    /\ last_error' = <<>>
    /\ rpc' = "loop"
    /\ UNCHANGED <<progvars, retry_rest, wait, retries, f_results, slept,
                   rresult>>

\* One iteration of `for _ in 0..retries`: delay_for(t), then f().
RetryAttempt ==
    /\ mpc = "lib"
    /\ rpc = "loop"
    /\ Len(f_results) < retries
    /\ slept' = Append(slept, t_delay)
    /\ \/ /\ f_results' = Append(f_results, FOk("stream"))
          /\ rpc' = "returned"
          /\ rresult' = RetryResult("Ok", "stream", 0)
          /\ UNCHANGED <<t_delay, last_error>>
       \/ \E e \in RetryErrors :
             /\ f_results' = Append(f_results, FErr(e))
             /\ last_error' = SomeError(last_error, e)
             /\ t_delay' = Backoff(t_delay)
             /\ UNCHANGED <<rpc, rresult>>
    /\ UNCHANGED <<progvars, retry_rest, wait, retries>>

\* After the loop: last_error.unwrap() panics on None, which is what
\* retries = 0 leaves.
RetryExhausted ==
    /\ mpc = "lib"
    /\ rpc = "loop"
    /\ Len(f_results) = retries
    /\ IF last_error = <<>>
       THEN /\ rpc' = "panicked"
            /\ UNCHANGED rresult
       ELSE /\ rpc' = "returned"
            /\ rresult' = RetryResult("Err", last_error[1], retries)
    /\ UNCHANGED <<progvars, retry_rest, wait, retries, t_delay, last_error,
                   f_results, slept>>

NextRetry == RetryStart \/ RetryAttempt \/ RetryExhausted

SpecRetry == InitRetry /\ [][NextRetry]_vars
\* --------------------------------- messages and Proto::recv on their own
\* Number of items the framed stream yields before it ends.
MaxFrames == 2

\* The kinds of the message enum that are followed and its values.
MsgKinds == {"DownloadBuild", "RecvProfile", "Restarting"}
Msgs == {m \in PeerMsgs : m.kind \in MsgKinds}
Inners == {Inner(m.kind, m.ok, m.val) : m \in Msgs}

\* What try_next() yields: Some(frame), or an error of the socket or of the
\* codec; None once the sequence is used up.
Frame(m) == [type |-> "frame", msg |-> m]
StreamError == [type |-> "error", msg |-> RunnerMsg("none", FALSE, <<>>)]
StreamItems == {Frame(m) : m \in Msgs} \cup {StreamError}

\* Message::kind(&self), MessageContent::kind() and From<$inner_ty>.
Kind(msg) == msg.kind
ContentKind(ty) == ty
From(inner) == RunnerMsg(inner.type, inner.ok, inner.val)

\* KindMismatch{expected, actual} and TryFrom<$msg_ty> for $inner_ty.
KindMismatchSwapped(expected, actual) == Unexpected(actual, expected)
KindMismatch(expected, actual) == Unexpected(expected, actual)
TryFrom(ty, msg) ==
    IF msg.kind = ty
    THEN MOk(Inner(ty, msg.ok, msg.val))
    ELSE MErr(KindMismatch(ContentKind(ty), Kind(msg)))

\* `M::kind() != actual` in Proto::recv.
KindsNeverDiffer(a, b) == FALSE
KindsDiffer(a, b) == a # b

\* Proto::recv::<M>() on the item try_next() yields; "panicked" is the
\* expect() on a failed try_from.
Recv(ty, items) ==
    IF items = <<>> THEN MErr(ProtoEndOfStream)
    ELSE IF Head(items).type = "error" THEN MErr(Into(IoError("connection reset")))
    ELSE LET msg == Head(items).msg
             actual == Kind(msg)
         IN IF KindsDiffer(ContentKind(ty), actual)
            THEN MErr(KindMismatch(ContentKind(ty), actual))
            ELSE IF TryFrom(ty, msg).tag = "Ok"
                 THEN TryFrom(ty, msg)
                 ELSE [tag |-> "panicked", inner |-> NoInner, err |-> NoError]

SeqsUpTo(S, n) == UNION {[1..k -> S] : k \in 0..n}

InitMsg ==
    /\ ProgOff
    /\ ZipOff
    /\ IdleOff
    /\ RetryOff
    /\ PrefsOff
    /\ frames \in SeqsUpTo(StreamItems, MaxFrames)
    /\ recv_kind = "none"
    /\ recv_calls = 0
    /\ recv_result = MNoResult
    /\ conv_inner = NoInner
    /\ conv_msg = RunnerMsg("none", FALSE, <<>>)
    /\ conv_target = "none"
    /\ conv_result = MNoResult

\* One call of recv::<M>().
ProtoRecv ==
    /\ mpc = "lib"
    /\ recv_calls <= MaxFrames
    /\ recv_result.tag # "panicked"
    /\ \E ty \in MsgKinds :
          /\ recv_kind' = ty
          /\ recv_result' = Recv(ty, frames)
    /\ frames' = IF frames = <<>> THEN frames ELSE Tail(frames)
    /\ recv_calls' = recv_calls + 1
    /\ UNCHANGED <<progvars, msg_rest, conv_inner, conv_msg, conv_target,
                   conv_result>>

\* A content value is wrapped (`into()`), and the wrapper is converted to a
\* content type.
Convert ==
    /\ mpc = "lib"
    /\ \E inner \in Inners, ty \in MsgKinds :
          /\ conv_inner' = inner
          /\ conv_msg' = From(inner)
          /\ conv_target' = ty
          /\ conv_result' = TryFrom(ty, From(inner))
    /\ UNCHANGED <<progvars, msg_rest, frames, recv_kind, recv_calls,
                   recv_result>>

NextMsg == ProtoRecv \/ Convert

SpecMsg == InitMsg /\ [][NextMsg]_vars
\* ------------------------------- prefs and the write-prefs step on their own
\* Number of prefs in one NewSession request.
MaxPrefs == 2

\* Keys and values of prefs: strings are sequences of characters.
PrefKeys == {<<"k">>, <<"a", ".", "b">>}
Scalars ==
    {JBool(TRUE), JNumber(-1, FALSE), JNumber(0, TRUE),
     JString(<<"a", "\"">>)}
JsonValues == Scalars \cup {JNull, JArray, JObject}

\* PrefValue(Value): the newtype, built by try_from or by Deserialize.
PrefValue(v) == [pref |-> v]

\* TryFrom<Value> for PrefValue.
TryFromValue(v) ==
    CASE v.t \in {"Bool", "Number", "String"} -> PrefOk(<<>>, PrefValue(v))
      [] v.t = "Null" -> PrefErr("Null")
      [] v.t = "Array" -> PrefErr("Array")
      [] OTHER -> PrefErr("Object")

\* #[derive(Serialize, Deserialize)] on the newtype: the Value inside, and
\* whatever Value the frame holds.
Serialize(pv) == pv.pref
Deserialize(v) == PrefValue(v)

\* parse_pref: find(':'), split_at, from_str, try_into.
parse_pref(arg) ==
    IF ~arg.colon THEN PrefErr("ExpectedColon")
    ELSE IF ~arg.json THEN PrefErr("Json")
    ELSE LET r == TryFromValue(arg.value) IN
         IF r.tag = "Ok" THEN PrefOk(arg.key, r.value) ELSE r

\* serde_json's escape of one character of a string.
EscapeChar(c) ==
    CASE c = "\"" -> <<"\\", "\"">>
      [] c = "\\" -> <<"\\", "\\">>
      [] OTHER -> <<c>>
RECURSIVE Escape(_)
Escape(s) == IF s = <<>> THEN <<>> ELSE EscapeChar(Head(s)) \o Escape(Tail(s))

\* Number's Display for the numbers of the model: an integer in -9..9, or
\* that integer as a float.
Digit(n) == <<"0", "1", "2", "3", "4", "5", "6", "7", "8", "9">>[n + 1]
NumberToString(n, float) ==
    (IF n < 0 THEN <<"-", Digit(-n)>> ELSE <<Digit(n)>>)
    \o (IF float THEN <<".", "0">> ELSE <<>>)

\* Value::to_string(): the compact JSON text.
to_string_unescaped(v) ==
    CASE v.t = "String" -> <<"\"">> \o v.s \o <<"\"">>
      [] v.t = "Bool" -> IF v.b THEN <<"t", "r", "u", "e">>
                         ELSE <<"f", "a", "l", "s", "e">>
      [] v.t = "Number" -> NumberToString(v.n, v.float)
      [] v.t = "Null" -> <<"n", "u", "l", "l">>
      [] v.t = "Array" -> <<"[", "]">>
      [] OTHER -> <<"{", "}">>
to_string(v) ==
    CASE v.t = "String" -> <<"\"">> \o Escape(v.s) \o <<"\"">>
      [] v.t = "Bool" -> IF v.b THEN <<"t", "r", "u", "e">>
                         ELSE <<"f", "a", "l", "s", "e">>
      [] v.t = "Number" -> NumberToString(v.n, v.float)
      [] v.t = "Null" -> <<"n", "u", "l", "l">>
      [] v.t = "Array" -> <<"[", "]">>
      [] OTHER -> <<"{", "}">>

\* The k-th of the five write_all calls write_prefs makes for (key, value).
PrefChunk(key, value, k) ==
    CASE k = 1 -> <<"p", "r", "e", "f", "(", "\"">>
      [] k = 2 -> key
      [] k = 3 -> <<"\"", ",", " ">>
      [] k = 4 -> to_string(value.pref)
      [] OTHER -> <<")", ";", "\n">>

RECURSIVE Flatten(_)
Flatten(ss) == IF ss = <<>> THEN <<>> ELSE Head(ss) \o Flatten(Tail(ss))

\* OpenOptions::new().append(true).create(true).open(): the file as it is,
\* created empty when absent; a write goes after its last byte.
OpenTruncate(f) == File(<<>>)
OpenAppendCreate(f) == IF f.exists THEN f ELSE File(<<>>)
WriteAt(f, bytes) == File(f.bytes \o bytes)

\* What user.js may hold when the step begins.
OldUserJs ==
    {Absent, File(<<>>),
     File(<<"/", "/", "x", "\n">>)}

InitPrefs ==
    /\ ProgOff
    /\ ZipOff
    /\ IdleOff
    /\ RetryOff
    /\ MsgOff
    \* the frame comes from fxrecorder, or from another client
    /\ \/ pf_pc = "cli" /\ wire_prefs = <<>>
       \/ pf_pc = "wire"
          /\ wire_prefs \in SeqsUpTo(PrefKeys \X JsonValues, MaxPrefs)
    /\ req_prefs = <<>>
    /\ pf_i = 0
    /\ pf_k = 0
    /\ chunks = <<>>
    /\ user_js \in OldUserJs
    /\ user_js0 = user_js
    /\ pf_ack = <<>>
    /\ cli_arg = CliArg(FALSE, <<>>, FALSE, JNull)
    /\ cli_result = NoPrefResult

\* fxrecorder's command line: one --pref argument goes through parse_pref;
\* an error ends the process, a pair joins RecordOptions::prefs, which
\* new_session serializes into the frame.
ParsePref ==
    /\ mpc = "lib"
    /\ pf_pc = "cli"
    /\ Len(wire_prefs) < MaxPrefs
    /\ \E colon \in BOOLEAN, key \in PrefKeys, isjson \in BOOLEAN,
          v \in JsonValues :
          /\ cli_arg' = CliArg(colon, key, isjson, v)
          /\ cli_result' = parse_pref(cli_arg')
    /\ IF cli_result'.tag = "Ok"
       THEN /\ wire_prefs' =
                  Append(wire_prefs,
                         <<cli_result'.key, Serialize(cli_result'.value)>>)
            /\ UNCHANGED pf_pc
       ELSE /\ pf_pc' = "rejected"
            /\ UNCHANGED wire_prefs
    /\ UNCHANGED <<progvars, pref_rest, req_prefs, pf_i, pf_k, chunks,
                   user_js, user_js0, pf_ack>>

\* new_session: send::<Session>(NewSessionRequest{prefs, ..}).
SendPrefs ==
    /\ mpc = "lib"
    /\ pf_pc = "cli"
    /\ pf_pc' = "wire"
    /\ UNCHANGED <<progvars, pref_rest, wire_prefs, req_prefs, pf_i, pf_k,
                   chunks, user_js, user_js0, pf_ack, cli_arg, cli_result>>

\* recv::<Session>(): the frame's prefs become request.prefs.
PrefsDeserialize ==
    /\ mpc = "lib"
    /\ pf_pc = "wire"
    /\ req_prefs' = [i \in 1..Len(wire_prefs) |->
                        <<wire_prefs[i][1], Deserialize(wire_prefs[i][2])>>]
    /\ pf_pc' = "open"
    /\ UNCHANGED <<progvars, pref_rest, wire_prefs, pf_i, pf_k, chunks,
                   user_js, user_js0, pf_ack, cli_arg, cli_result>>

\* `if !request.prefs.is_empty()`: open user.js, or go on to the ack.
PrefsOpen ==
    /\ mpc = "lib"
    /\ pf_pc = "open"
    /\ IF req_prefs = <<>>
       THEN /\ pf_pc' = "ack"
            /\ UNCHANGED <<user_js, pf_ack>>
       ELSE \/ /\ user_js' = OpenAppendCreate(user_js)
               /\ pf_pc' = "write"
               /\ UNCHANGED pf_ack
            \/ /\ pf_ack' = <<RunnerMsg("WritePrefs", FALSE, <<"access denied">>)>>
               /\ pf_pc' = "failed"
               /\ UNCHANGED user_js
    /\ UNCHANGED <<progvars, pref_rest, wire_prefs, req_prefs, pf_i, pf_k,
                   chunks, user_js0, cli_arg, cli_result>>

\* write_prefs: one write_all call; a failed call may have written the
\* beginning of its buffer.
PrefsWrite ==
    /\ mpc = "lib"
    /\ pf_pc = "write"
    /\ pf_i < Len(req_prefs)
    /\ LET pair == req_prefs[pf_i + 1]
           buf == PrefChunk(pair[1], pair[2], pf_k + 1)
       IN \/ /\ chunks' = Append(chunks, buf)
             /\ user_js' = WriteAt(user_js, buf)
             /\ pf_k' = (pf_k + 1) % 5
             /\ pf_i' = IF pf_k = 4 THEN pf_i + 1 ELSE pf_i
             /\ UNCHANGED <<pf_pc, pf_ack>>
          \/ \E n \in {0, Len(buf) - 1} :
                /\ n >= 0
                /\ chunks' = IF n = 0 THEN chunks
                             ELSE Append(chunks, SubSeq(buf, 1, n))
                /\ user_js' = WriteAt(user_js, SubSeq(buf, 1, n))
                /\ pf_ack' = <<RunnerMsg("WritePrefs", FALSE, <<"disk full">>)>>
                /\ pf_pc' = "failed"
                /\ UNCHANGED <<pf_i, pf_k>>
    /\ UNCHANGED <<progvars, pref_rest, wire_prefs, req_prefs, user_js0,
                   cli_arg, cli_result>>

\* write_prefs returned Ok(()).
PrefsWritten ==
    /\ mpc = "lib"
    /\ pf_pc = "write"
    /\ pf_i = Len(req_prefs)
    /\ pf_pc' = "ack"
    /\ UNCHANGED <<progvars, pref_rest, wire_prefs, req_prefs, pf_i, pf_k,
                   chunks, user_js, user_js0, pf_ack, cli_arg, cli_result>>

\* `self.send(WritePrefs { result: Ok(()) })`.
PrefsAck ==
    /\ mpc = "lib"
    /\ pf_pc = "ack"
    /\ pf_ack' = <<RunnerMsg("WritePrefs", TRUE, <<>>)>>
    /\ pf_pc' = "done"
    /\ UNCHANGED <<progvars, pref_rest, wire_prefs, req_prefs, pf_i, pf_k,
                   chunks, user_js, user_js0, cli_arg, cli_result>>

NextPrefs ==
    \/ ParsePref \/ SendPrefs \/ PrefsDeserialize \/ PrefsOpen \/ PrefsWrite
    \/ PrefsWritten \/ PrefsAck

SpecPrefs == InitPrefs /\ [][NextPrefs]_vars
\* ============================================== recv_profile: unzip, rename
\* Paths are sequences of components; an absolute path begins with "/".
MaxEntries == 3

\* session_info.path, and the directory fxrunner was started in.
SessionPath == <<"/", "sessions", "id">>
CurrentDir == <<"/", "cwd">>

\* PathBuf::join with a relative second path.
Join(a, b) == a \o b
\* How the OS resolves a path handed to it: a relative one against the
\* current directory.
Resolve(path) ==
    IF path # <<>> /\ path[1] = "/" THEN path ELSE Join(CurrentDir, path)

\* zipped.sanitized_name() of the entries an archive may hold.
EntryNames == {<<"p">>, <<"p", "a">>, <<"p", "b">>, <<"q">>}
ZipEntry(name, is_dir) == [name |-> name, is_dir |-> is_dir]
ZipEntries == {ZipEntry(n, d) : n \in EntryNames, d \in BOOLEAN}

\* common_stem: the components two paths share from the start, None when
\* they share none.
common_stem(p1, p2) ==
    LET n == Min(Len(p1), Len(p2))
        same == {k \in 0..n : \A j \in 1..k : p1[j] = p2[j]}
        k == CHOOSE x \in same : \A y \in same : y <= x
    IN  IF k = 0 THEN <<>> ELSE <<SubSeq(p1, 1, k)>>

\* ZipStats.top_level_dir after entry i with the given name.
TopLevel(i, tld, name) ==
    IF i = 1 THEN <<name>>
    ELSE IF tld # <<>> THEN common_stem(tld[1], name)
    ELSE <<>>

Exists(fs, path) == \E k \in {"dir", "file"} : <<path, k>> \in fs
IsFile(fs, path) == <<path, "file">> \in fs
IsDir(fs, path) == <<path, "dir">> \in fs
Prefixes(path) == {SubSeq(path, 1, k) : k \in 1..Len(path)}
Parent(path) == SubSeq(path, 1, Len(path) - 1)

\* create_dir_all: fails when a component is a file, otherwise every missing
\* component becomes a directory.
CanCreateDirAll(fs, path) == \A q \in Prefixes(path) : ~IsFile(fs, q)
CreateDirAll(fs, path) ==
    fs \cup {<<q, "dir">> : q \in {r \in Prefixes(path) : Len(r) > 1}}
\* File::create: fails on a directory, otherwise the file exists afterwards.
CanCreateFile(fs, path) == ~IsDir(fs, path)
CreateFile(fs, path) == fs \cup {<<path, "file">>}

\* rename(from, to): `from` must exist; it and what is under it move to `to`.
Under(fs, path) == {e \in fs : IsPrefix(path, e[1])}
Rename(fs, from, to) ==
    (fs \ Under(fs, from))
    \cup {<<Join(to, Drop(e[1], Len(from))), e[2]>> : e \in Under(fs, from)}

UnzipPath == Join(SessionPath, <<"unzipped_profile">>)
ProfileDir == Join(SessionPath, <<"profile">>)
\* What the working directory of fxrunner may hold besides the session root.
CurrentDirContents ==
    {{},
     {<<Join(CurrentDir, <<"p">>), "dir">>,
      <<Join(CurrentDir, <<"p", "x">>), "file">>}}

\* recv_profile after Ok(Downloaded): profile.zip is in the session
\* directory.
InitZip ==
    /\ ProgOff
    /\ IdleOff
    /\ RetryOff
    /\ MsgOff
    /\ PrefsOff
    /\ zpc = "unzip"
    /\ zarchive \in SeqsUpTo(ZipEntries, MaxEntries)
    /\ zi = 0
    /\ zstats = ZipStats(0, <<>>)
    /\ \E cwd \in CurrentDirContents :
          zfs = {<<SessionPath, "dir">>, <<CurrentDir, "dir">>,
                 <<Join(SessionPath, <<"profile.zip">>), "file">>} \cup cwd
    /\ zresult = NoZipResult

\* unzip: one round of the loop over the entries.
UnzipEntry ==
    /\ mpc = "lib"
    /\ zpc = "unzip"
    /\ zi < Len(zarchive)
    /\ LET zipped == zarchive[zi + 1]
           name == zipped.name
           path == Join(UnzipPath, name)
           tld == TopLevel(zi + 1, zstats.top_level_dir, name)
       IN
       \E io_ok \in BOOLEAN :
          IF zipped.is_dir
          THEN IF io_ok /\ CanCreateDirAll(zfs, path)
               THEN /\ zfs' = CreateDirAll(zfs, path)
                    /\ zstats' = ZipStats(zstats.extracted, tld)
                    /\ zi' = zi + 1
                    /\ UNCHANGED <<zpc, zresult>>
               ELSE /\ zpc' = "done"
                    /\ zresult' = ZipErr("MakeDir")
                    /\ zstats' = ZipStats(zstats.extracted, tld)
                    /\ UNCHANGED <<zfs, zi>>
          ELSE IF ~(io_ok /\ CanCreateDirAll(zfs, Parent(path)))
               THEN /\ zpc' = "done"
                    /\ zresult' = ZipErr("MakeDir")
                    /\ zstats' = ZipStats(zstats.extracted, tld)
                    /\ UNCHANGED <<zfs, zi>>
               ELSE IF CanCreateFile(zfs, path)
               THEN /\ zfs' = CreateFile(CreateDirAll(zfs, Parent(path)), path)
                    /\ zstats' = ZipStats(zstats.extracted + 1, tld)
                    /\ zi' = zi + 1
                    /\ UNCHANGED <<zpc, zresult>>
               ELSE /\ zpc' = "done"
                    /\ zresult' = ZipErr("Io")
                    /\ zfs' = CreateDirAll(zfs, Parent(path))
                    /\ zstats' = ZipStats(zstats.extracted, tld)
                    /\ UNCHANGED zi
    /\ UNCHANGED <<zarchive, progvars, zip_rest>>

\* unzip returned Ok(stats): the check for an empty profile.
UnzipReturned ==
    /\ mpc = "lib"
    /\ zpc = "unzip"
    /\ zi = Len(zarchive)
    /\ IF zstats.extracted = 0
       THEN /\ zpc' = "done"
            /\ zresult' = ZipErr("EmptyProfile")
       ELSE /\ zpc' = "rename"
            /\ zresult' = zresult
    /\ UNCHANGED <<zarchive, zi, zstats, zfs, progvars, zip_rest>>

\* stats.top_level_dir.unwrap_or(unzip_path)
UnzippedProfileDirJoined(stats) ==
    IF stats.top_level_dir # <<>> THEN Join(UnzipPath, stats.top_level_dir[1])
    ELSE UnzipPath
UnzippedProfileDir(stats) ==
    IF stats.top_level_dir # <<>> THEN stats.top_level_dir[1] ELSE UnzipPath

\* rename(unzipped_profile_dir, profile_dir) and the return of recv_profile.
ProfileRename ==
    /\ mpc = "lib"
    /\ zpc = "rename"
    /\ zpc' = "done"
    /\ LET from == Resolve(UnzippedProfileDir(zstats)) IN
       \E io_ok \in BOOLEAN :
          IF io_ok /\ Exists(zfs, from)
          THEN /\ zfs' = Rename(zfs, from, ProfileDir)
               /\ zresult' = ZipOk(ProfileDir)
          ELSE /\ zfs' = zfs
               /\ zresult' = ZipErr("Io")
    /\ UNCHANGED <<zarchive, zi, zstats, progvars, zip_rest>>

NextZip == UnzipEntry \/ UnzipReturned \/ ProfileRename
SpecZip == InitZip /\ [][NextZip]_vars
\* ============================================================== properties
Last(q) == q[Len(q)]
OkAck(k, v) == RunnerMsg(k, TRUE, v)

\* The acks of a new-session run in which every step succeeds.
NewSessionAcks(has_profile, id) ==
    <<OkAck("NewSessionResponse", <<id.name>>),
      OkAck("DownloadBuild", <<"Downloading">>),
      OkAck("DownloadBuild", <<"Downloaded">>),
      OkAck("DownloadBuild", <<"Extracted">>),
      OkAck("DisableUpdates", <<>>)>>
    \o (IF has_profile
        THEN <<OkAck("RecvProfile", <<"Downloading">>),
               OkAck("RecvProfile", <<"Downloaded">>),
               OkAck("RecvProfile", <<"Extracted">>)>>
        ELSE <<OkAck("CreateProfile", <<>>)>>)
    \o <<OkAck("WritePrefs", <<>>), OkAck("Restarting", <<>>)>>

\* The RunnerMessages the recorder took with a typed recv, in order.
Received(log) ==
    LET F[i \in 0..Len(log)] ==
            IF i = 0 THEN <<>>
            ELSE IF log[i].ev = "recv" THEN Append(F[i - 1], log[i].msg)
            ELSE F[i - 1]
    IN F[Len(log)]

NewSessionSucceeded ==
    wreq.type = "new" /\ wpc = "done" /\ wresult.tag = "Ok"

\* C1: a new-session run in which every step succeeds sends exactly the
\* eight acks NewSessionResponse, DownloadBuild x3, DisableUpdates,
\* CreateProfile, WritePrefs, Restarting in that order (with a profile:
\* RecvProfile x3 in place of CreateProfile), and the recorder's new_session
\* takes exactly these, in this order, and returns the session id.
C1_AckOrder ==
    NewSessionSucceeded =>
        /\ wlog = NewSessionAcks(wreq.has_profile, wsession)
        /\ Len(wlog) = IF wreq.has_profile THEN 10 ELSE 8
        /\ IsPrefix(Received(clog), wlog)
        /\ \A i \in 1..Len(clog) : clog[i].ev # "unexpected"
        /\ cpc = "done" =>
              \/ /\ cresult = COk(<<wsession.name>>)
                 /\ Received(clog) = wlog
              \* the recorder's own copy of the profile file failed
              \/ /\ wreq.has_profile
                 /\ cresult = CErr(ProtoIo)
                 /\ clog[Len(clog)].ev = "raw"

C1_Witness ==
    /\ NewSessionSucceeded
    /\ wreq.has_profile
    /\ cpc = "done"
    /\ cresult.tag = "Ok"

Allocated == wsession \in GeneratedIds

C3_RestartKeepsSession ==
    (wpc = "done" /\ wlog # <<>> /\ Last(wlog) = OkAck("Restarting", <<>>))
        => /\ wresult = Ok(TRUE)
           /\ wsession \in sessions
           /\ HasEntry(files, wsession, "firefox/firefox.exe")
           /\ HasEntry(files, wsession, "firefox/distribution/policies.json")
           /\ HasEntry(files, wsession, "profile")

C3_Witness ==
    /\ wpc = "done" /\ wlog # <<>> /\ Last(wlog) = OkAck("Restarting", <<>>)
    /\ wreq.prefs
    /\ mpc = "restart"

ResumeSucceeded ==
    wreq.type = "resume" /\ wpc = "done" /\ wresult = Ok(FALSE)

C7_ErrAckHasPhaseKind ==
    (wpc = "done" /\ wfail.phase # "none" /\ wsendok)
        => /\ wlog # <<>>
           /\ Last(wlog) = RunnerMsg(wfail.phase, FALSE, Display(wfail.err))

\* C8 as stated: when the send of the Err ack fails, the handler still
\* returns the error it was reporting.
C8_Original ==
    (wpc = "done" /\ wfail.phase # "none" /\ ~wsendok)
        => wresult = Err(Into(wfail.err))

\* C8: when the send of the Err ack fails, the handler returns the transport
\* error of the send (RunnerProtoError::Proto), not the error it reported.
C8_SendFailureReturned ==
    (wpc = "done" /\ wfail.phase # "none" /\ ~wsendok)
        => wresult = Err([type |-> "ProtoIo", src |-> <<"connection reset">>])

C8_Witness ==
    /\ wpc = "done" /\ wfail.phase # "none" /\ ~wsendok
    /\ wfail.err.type = "MissingFirefox"

\* An Err payload taken by a typed recv at position i of the recorder's log.
RecvErrAt(i) == clog[i].ev = "recv" /\ ~clog[i].msg.ok

ReturnsForeign(i) ==
    /\ i = Len(clog)
    /\ cpc = "done"
    /\ cresult = [tag |-> "Err", val |-> <<>>,
                  err |-> [type |-> "Foreign", src |-> clog[i].msg.val]]

\* C9 as stated: in any phase of new_session or resume_session an Err payload
\* makes the recorder return Foreign with the runner's string and is the last
\* event on the connection.
C9_Original == \A i \in 1..Len(clog) : RecvErrAt(i) => ReturnsForeign(i)

LoggedKinds == {"StoppedFirefox", "SessionFinished"}

\* C9: an Err payload in any phase of new_session, or in the ResumeResponse,
\* WaitForIdle or StartedFirefox phase of resume_session, makes the recorder
\* return Foreign with the runner's string and is the last event on the
\* connection; an Err payload of StoppedFirefox or SessionFinished is only
\* logged: after StoppedFirefox the recorder goes on to receive
\* SessionFinished (and fails only if the stream ends), after SessionFinished
\* it returns Ok.
C9_ForeignError ==
    \A i \in 1..Len(clog) :
        RecvErrAt(i) =>
            IF clog[i].msg.kind \notin LoggedKinds THEN ReturnsForeign(i)
            ELSE IF clog[i].msg.kind = "StoppedFirefox"
            THEN i = Len(clog) =>
                    \/ cpc = "recv_session_finished" /\ cresult = CNoResult
                    \/ cpc = "done" /\ cresult = CErr(ProtoEndOfStream)
            ELSE i = Len(clog) /\ cpc = "done" /\ cresult.tag = "Ok"

C9_Witness ==
    /\ clog # <<>>
    /\ RecvErrAt(Len(clog))
    /\ Last(clog).msg.kind = "RecvProfile"
    /\ cstate = "Downloaded"
    /\ ReturnsForeign(Len(clog))

IsMismatchError(e) == e.type \in {"RecvProfileMismatch", "SequenceMismatch"}
InBuildPhase(log) ==
    log # <<>> /\ Last(log).ev = "recv" /\ Last(log).msg.kind = "DownloadBuild"

\* C10 as stated: the DownloadBuild statuses the recorder accepts are a
\* prefix of Downloading, Downloaded, Extracted; any other status makes
\* new_session fail with a sequence-mismatch error.
C10_Original ==
    creq.type = "new" =>
        \/ IsPrefix(SeenBuild(clog), DownloadStatus)
        \/ cpc = "done" /\ cresult.tag = "Err" /\ IsMismatchError(cresult.err)

\* C10: new_session accepts Ok DownloadBuild acks in any order and number:
\* Ok(Downloading) and Ok(Downloaded) keep it in the build loop, the first
\* Ok(Extracted) ends the loop, and no status makes it fail in this phase
\* (it fails only if the stream ends before the next ack).
C10_BuildStatusUnchecked ==
    (creq.type = "new" /\ InBuildPhase(clog) /\ Last(clog).msg.ok) =>
        \/ /\ cresult = CNoResult
           /\ cpc = IF Last(clog).msg.val = <<"Extracted">>
                    THEN "recv_disable_updates" ELSE "recv_download_build"
        \/ cpc = "done" /\ cresult = CErr(ProtoEndOfStream)

C10_Witness ==
    /\ creq.type = "new"
    /\ SeenBuild(clog) = <<"Downloaded", "Downloading", "Extracted">>
    /\ cpc = "recv_disable_updates"

\* The Ok RecvProfile statuses the recorder has received so far.
SeenProfile(log) ==
    LET F[i \in 0..Len(log)] ==
            IF i = 0 THEN <<>>
            ELSE IF log[i].ev = "recv" /\ log[i].msg.kind = "RecvProfile"
                    /\ log[i].msg.ok
            THEN F[i - 1] \o log[i].msg.val ELSE F[i - 1]
    IN F[Len(log)]

\* C11: send_profile writes raw profile bytes only right after it received
\* RecvProfile{Ok(Downloading)}; as long as the Ok RecvProfile statuses it
\* receives are a prefix of Downloading, Downloaded, Extracted it raises no
\* mismatch, and the first status that leaves this order ends it at once
\* with RecvProfileMismatch naming the status that was due and the one
\* received.
C11_ProfileStatusOrder ==
    LET seen == SeenProfile(clog) IN
    /\ \A i \in 1..Len(clog) :
          clog[i].ev = "raw" =>
              /\ i > 1
              /\ clog[i - 1] =
                     Event("recv", OkAck("RecvProfile", <<"Downloading">>))
    /\ IF IsPrefix(seen, DownloadStatus)
       THEN cresult.err.type # "RecvProfileMismatch"
       ELSE /\ IsPrefix(SubSeq(seen, 1, Len(seen) - 1), DownloadStatus)
            /\ Last(clog) = Event("recv", OkAck("RecvProfile", <<Last(seen)>>))
            /\ cpc = "done"
            /\ cresult = CErr(RecvProfileMismatch(
                             <<DownloadStatus[Len(seen)]>>, <<Last(seen)>>))

C11_Witness ==
    /\ \E i \in 1..Len(clog) : clog[i].ev = "raw"
    /\ SeenProfile(clog) = <<"Downloading", "Downloaded", "Downloaded">>
    /\ cresult = CErr(RecvProfileMismatch(<<"Extracted">>, <<"Downloaded">>))

\* C12: the raw bytes the recorder wrote before its next framed receive are
\* as many as the profile_size it announced, and the runner has sent
\* RecvProfile{Ok(Downloaded)} only with exactly profile_size bytes read
\* into profile.zip.
C12_RawByteCount ==
    /\ \A i \in 1..Len(clog) :
          (clog[i].ev = "raw" /\ i < Len(clog)) =>
              Len(clog[i].msg.val) = creq.profile_size
    /\ (\E j \in 1..Len(wlog) :
           wlog[j] = OkAck("RecvProfile", <<"Downloaded">>))
          => zipbytes = wreq.profile_size

\* The acks of kind k in log, and the statuses of the Ok ones among them.
KindAcks(log, k) == SelectSeq(log, LAMBDA m : m.kind = k)
OkStatuses(log, k) ==
    LET acks == KindAcks(log, k)
        F[i \in 0..Len(acks)] ==
            IF i = 0 THEN <<>>
            ELSE IF acks[i].ok THEN F[i - 1] \o acks[i].val ELSE F[i - 1]
    IN F[Len(acks)]
ErrAcks(log) == SelectSeq(log, LAMBDA m : ~m.ok)
StatusKinds == {"DownloadBuild", "RecvProfile"}

\* C13 as stated: in each of the two phases the Ok statuses sent are a
\* prefix of Downloading, Downloaded, Extracted, and a phase that is over
\* ended with Ok(Extracted) and no Err ack, or with exactly one Err ack as
\* its last ack.
C13_Original ==
    \A k \in StatusKinds :
        LET acks == KindAcks(wlog, k) IN
        /\ IsPrefix(OkStatuses(wlog, k), DownloadStatus)
        /\ (wpc = "done" /\ acks # <<>>) =>
              \/ Last(acks) = OkAck(k, <<"Extracted">>) /\ ErrAcks(acks) = <<>>
              \/ ~Last(acks).ok /\ Len(ErrAcks(acks)) = 1

\* C13: for each of the two kinds the Ok statuses sent are a prefix of
\* Downloading, Downloaded, Extracted, and at most one Err ack of the kind is
\* sent, as the last message of the run.  A run that is over left the phase
\* with Ok(Extracted) as its last ack of the kind or with an Err ack as the
\* last message sent (for a failed raw profile transfer that ack has kind
\* DownloadBuild and follows DownloadBuild{Ok(Extracted)}), unless the send
\* that was due failed, in which case the phase ends without either.
C13_StatusPrefix ==
    \A k \in StatusKinds :
        LET acks == KindAcks(wlog, k) IN
        /\ IsPrefix(OkStatuses(wlog, k), DownloadStatus)
        /\ Len(ErrAcks(acks)) <= 1
        /\ ErrAcks(acks) # <<>> => ~Last(wlog).ok /\ Last(wlog).kind = k
        /\ (wpc = "done" /\ acks # <<>>) =>
              \/ Last(acks) = OkAck(k, <<"Extracted">>)
              \/ ~Last(wlog).ok /\ Last(wlog).kind \in {k, "DownloadBuild"}
              \/ ~wsendok

C13_Witness ==
    /\ wpc = "done"
    /\ OkStatuses(wlog, "DownloadBuild") = DownloadStatus
    /\ Len(KindAcks(wlog, "RecvProfile")) = 3
    /\ OkStatuses(wlog, "RecvProfile") = <<"Downloading", "Downloaded">>
    /\ ~Last(wlog).ok /\ Last(wlog).kind = "RecvProfile"

\* The runner found that the profile archive extracted no file.
EmptyProfileRun ==
    wreq.type = "new" /\ wpc = "done" /\ wfail.err.type = "EmptyProfile"
SessionDestroyed ==
    /\ wsession \notin sessions
    /\ \A e \in Entries : ~HasEntry(files, wsession, e)
EmptyProfileAck ==
    RunnerMsg("RecvProfile", FALSE, <<"An empty profile was received">>)

ResumeReturned(tag) == smpc = "resume_returned" /\ sm_result.tag = tag

\* C15: when resume_session(s) returns Ok, <root>/s is a directory that
\* holds the directory profile and the file firefox/firefox.exe, and the
\* SessionInfo returned has id = s and path = <root>/s.
C15_ResumeOkIsValid ==
    ResumeReturned("Ok") =>
        /\ sm_session_id \in sessions
        /\ HasEntry(files, sm_session_id, "profile")
        /\ HasEntry(files, sm_session_id, "firefox")
        /\ HasEntry(files, sm_session_id, "firefox/firefox.exe")
        /\ sm_result.id = sm_session_id
        /\ sm_result.path = <<"root", sm_session_id.name>>

C15_Witness ==
    /\ ResumeReturned("Ok")
    /\ sm_session_id = SessionId("B", 32, TRUE)
    /\ sessions = RootDirs

\* C16: resume_session returns InvalidId exactly for the ids whose length is
\* not 32 (31 and 33 among them) or that hold a character outside
\* [A-Za-z0-9], and it has made no file system call when it does.
C16_InvalidId ==
    smpc = "resume_returned" =>
        /\ (sm_result.tag = "Err" /\ sm_result.kind = "InvalidId")
              <=> (sm_session_id.len # 32 \/ ~sm_session_id.alnum)
        /\ sm_result.kind = "InvalidId" => sm_ops = <<>>

C16_Witness ==
    /\ smpc = "resume_returned"
    /\ sm_session_id.len = 33
    /\ sm_result = SMErr("InvalidId", 0)
    /\ sessions # {}

\* A step in which resume_session returns an error of kind k.
ResumeFails(k) ==
    /\ SMCallable
    /\ smpc' = "resume_returned"
    /\ sm_result' = SMErr(k, 0)
NoDirectory(S, F, id) == id \notin S /\ \A e \in Entries : ~HasEntry(F, id, e)

C18_NewSession ==
    /\ [](/\ smpc \in {"new_loop", "new_returned"} =>
                /\ Len(sm_ops) = tries /\ tries <= TRIES
                /\ \A i \in 1..Len(sm_ops) : sm_ops[i] = "create_dir"
          /\ smpc = "new_loop" =>
                /\ sm_session_id = SessionId("", 0, TRUE)
                /\ sm_path = <<"root">>
          /\ smpc = "new_returned" =>
                CASE sm_result.tag = "Ok" ->
                        /\ sm_result.kind = ""
                        /\ validate_session_id(sm_result.id)
                        /\ sm_result.path = <<"root", sm_result.id.name>>
                        /\ sm_result.id \in sessions
                        /\ \A e \in Entries : ~HasEntry(files, sm_result.id, e)
                        /\ tries >= 1
                  [] sm_result.kind = "TooManyAttempts" ->
                        tries = 30 /\ sm_result.n = 30
                  [] OTHER -> sm_result = SMErr("Io", 0) /\ tries >= 1)
    /\ [][(smpc = "new_loop" /\ smpc' = "new_returned"
           /\ sm_result'.tag = "Ok")
              => /\ sm_result'.id \notin sessions
                 /\ sessions' = sessions \cup {sm_result'.id}
                 /\ files' = files]_vars
    /\ [][(smpc = "new_loop" /\ smpc' = "new_loop")
              => /\ UNCHANGED fsvars
                 /\ \E id \in sessions : validate_session_id(id)]_vars

C18_Witness ==
    /\ smpc = "new_returned"
    /\ sm_result.tag = "Ok"
    /\ tries = TRIES

\* C19 as stated: when the worker waits for its first connection no session
\* directory exists under the session root.
C19_Original == (mpc = "accept" /\ conns = 0) => sessions = {}

\* C19: fxrunner's startup (read_config, create_dir_all of the session root,
\* bind) removes nothing: what lies under the session root when the process
\* starts is still there when it first accepts, and the root is swept only
\* after a handler has returned something other than Ok(true).
C19_StartupKeepsSessions == [][mpc = "start" => UNCHANGED fsvars]_vars

C19_Witness ==
    /\ mpc = "accept" /\ conns = 0
    /\ StaleId \in sessions
    /\ HasEntry(files, StaleId, "firefox.zip")

\* The handler served a resume request that resume_session accepted.
ResumeAcked ==
    /\ wreq.type = "resume"
    /\ wlog # <<>>
    /\ wlog[1] = OkAck("ResumeResponse", <<>>)
WaitForIdleAcks == KindAcks(wlog, "WaitForIdle")

\* C20: in a resume run with idle = Skip the handler never runs the idle
\* detector and sends no WaitForIdle; with idle = Wait it runs the detector
\* once, after ResumeResponse{Ok}, and its one WaitForIdle message is the
\* second and last message of the run (none goes out when that send fails);
\* a run that succeeds makes handle_request return Ok(false).
C20_IdleSkipOrWait ==
    wreq.type = "resume" =>
        /\ wreq.idle = "Skip" => idle_runs = 0 /\ WaitForIdleAcks = <<>>
        /\ ~ResumeAcked => idle_runs = 0 /\ WaitForIdleAcks = <<>>
        /\ idle_runs <= 1
        /\ (wreq.idle = "Wait" /\ ResumeAcked /\ wpc = "done") =>
              /\ idle_runs = 1
              /\ IF wsendok
                 THEN Len(wlog) = 2 /\ WaitForIdleAcks = <<wlog[2]>>
                 ELSE Len(wlog) = 1 /\ wresult = Err(ProtoIo)
        /\ (wpc = "done" /\ wresult.tag = "Ok") =>
              /\ wresult = Ok(FALSE)
              /\ wlog = <<OkAck("ResumeResponse", <<>>)>>
                        \o (IF wreq.idle = "Wait"
                            THEN <<OkAck("WaitForIdle", <<>>)>> ELSE <<>>)

C20_Witness ==
    /\ wreq.type = "resume" /\ wreq.idle = "Wait"
    /\ wpc = "done" /\ wresult = Ok(FALSE)
    /\ idle_runs = 1
    /\ wlog = <<OkAck("ResumeResponse", <<>>), OkAck("WaitForIdle", <<>>)>>

\* The step is an iteration of the loop of cpu_and_disk_idle in which both
\* samples were taken.
IdleSampled ==
    /\ ipc = "loop" /\ RangeHas(attempts)
    /\ new_counters'.ok /\ cpu_calls' = cpu_calls + 1 /\ cpu_idle'.ok
\* The sample taken in the step is idle against the sample before it.
SampleIsIdle ==
    /\ new_counters'.v.reads = counters.reads
    /\ new_counters'.v.writes = counters.writes
    /\ cpu_idle'.v # NaN
    /\ cpu_idle'.v >= 95

\* C21: an iteration of cpu_and_disk_idle whose sample shows no read and no
\* write since the preceding sample and an idle fraction of at least 0.95
\* returns Ok at once, and only such an iteration returns Ok; an iteration
\* whose sample is not idle keeps it as the preceding sample of the next; the
\* call returns TimeoutError exactly when ATTEMPT_COUNT iterations have
\* passed this way; a sampling call that fails ends the call with the
\* provider's error before any further sample or sleep.
C21_IdleDetector ==
    /\ [][(IdleSampled /\ SampleIsIdle)
             => (ipc' = "returned" /\ iresult' = "Ok")]_vars
    /\ [][(ipc = "loop" /\ iresult' = "Ok")
             => (IdleSampled /\ SampleIsIdle /\ attempts < ATTEMPT_COUNT)]_vars
    /\ [][(IdleSampled /\ ~SampleIsIdle /\ ipc' # "panicked")
             => /\ ipc' = "loop" /\ attempts' = attempts + 1
                /\ counters' = new_counters'.v]_vars
    /\ [][(ipc = "loop" /\ attempts = ATTEMPT_COUNT)
             => iresult' = "TimeoutError"]_vars
    /\ [](iresult = "TimeoutError" => attempts = ATTEMPT_COUNT)
    /\ [][(ipc \in {"off", "loop"} /\ ~new_counters'.ok)
             => /\ ipc' = "returned" /\ iresult' = "DiskIoError"
                /\ UNCHANGED <<cpu_calls, attempts, counters>>]_vars
    /\ [][(ipc = "loop" /\ cpu_calls' # cpu_calls /\ ~cpu_idle'.ok)
             => /\ ipc' = "returned" /\ iresult' = "CpuTimeError"
                /\ UNCHANGED <<attempts, counters>>]_vars
    /\ [](iresult \in {"DiskIoError", "CpuTimeError"}
             => /\ ipc = "returned"
                /\ ~new_counters.ok \/ ~cpu_idle.ok
                /\ sleeps = attempts + (IF disk_calls = 1 THEN 0 ELSE 1))

C21_Witness ==
    /\ ipc = "returned" /\ iresult = "Ok"
    /\ attempts = ATTEMPT_COUNT - 1
    /\ cpu_idle = PerfOk(TARGET_CPU_IDLE_PERCENTAGE)
    /\ counters = new_counters.v

\* C29 as stated: a call that timed out made exactly ATTEMPT_COUNT calls of
\* each provider method.
C29_Original ==
    iresult = "TimeoutError"
        => /\ disk_calls = ATTEMPT_COUNT
           /\ cpu_calls = ATTEMPT_COUNT
           /\ sleeps = ATTEMPT_COUNT

\* C29: a call of cpu_and_disk_idle that timed out has sampled the disk
\* counters ATTEMPT_COUNT + 1 times (once before the loop, once in each
\* iteration), the CPU idle fraction ATTEMPT_COUNT times, and has slept
\* ATTEMPT_COUNT times.
C29_TimeoutSamples ==
    iresult = "TimeoutError"
        => /\ disk_calls = ATTEMPT_COUNT + 1
           /\ cpu_calls = ATTEMPT_COUNT
           /\ sleeps = ATTEMPT_COUNT

C29_Witness ==
    /\ ipc = "returned" /\ iresult = "TimeoutError"
    /\ disk_calls = 31 /\ cpu_calls = 30 /\ sleeps = 30

\* `wait * 2^(k-1)`.
RECURSIVE Pow2(_)
Pow2(k) == IF k = 0 THEN 1 ELSE 2 * Pow2(k - 1)
\* The k-th call of f failed, for every k below n.
FailedBefore(n) == \A k \in 1..(n - 1) : ~f_results[k].ok

\* C22: exponential_retry sleeps wait * 2^(k-1) right before its k-th call of
\* f (30, 60, 120, 240 seconds for wait = 30 s and four calls), sleeps at no
\* other time, calls f at most `retries` times, and returns Ok(r) in the step
\* in which f first returns Ok(r): every call before it failed, and no call
\* and no sleep follows.
C22_RetrySchedule ==
    /\ [](/\ Len(slept) = Len(f_results)
          /\ Len(f_results) <= retries
          /\ \A k \in 1..Len(slept) : slept[k] = wait * Pow2(k - 1)
          /\ FailedBefore(Len(f_results))
          /\ (wait = 30 /\ Len(slept) = 4) => slept = <<30, 60, 120, 240>>
          /\ (f_results # <<>> /\ f_results[Len(f_results)].ok)
                => /\ rpc = "returned"
                   /\ rresult = RetryResult("Ok", f_results[Len(f_results)].v, 0)
          /\ rresult.tag = "Ok"
                => f_results # <<>> /\ f_results[Len(f_results)].ok)
    /\ [][rpc = "returned" => UNCHANGED <<f_results, slept, rresult>>]_vars

C22_Witness ==
    /\ rpc = "returned" /\ rresult.tag = "Ok"
    /\ wait = 30 /\ retries = 4
    /\ slept = <<30, 60, 120, 240>>

\* C23: when exponential_retry returns an error, `retries` is at least 1, f
\* was called `retries` times and failed each time, the error's source is
\* the error of the last of these calls and its retries field is `retries`;
\* and with retries >= 1 the call returns this error once all calls failed.
C23_RetryError ==
    /\ [](rresult.tag = "Err"
             => /\ retries >= 1
                /\ Len(f_results) = retries
                /\ \A k \in 1..retries : ~f_results[k].ok
                /\ rresult.v = f_results[retries].v
                /\ rresult.retries = retries)
    /\ [][(/\ rpc = "loop" /\ retries >= 1 /\ Len(f_results) = retries)
             => (rpc' = "returned" /\ rresult'.tag = "Err")]_vars

C23_Witness ==
    /\ rpc = "returned" /\ rresult = RetryResult("Err", "timed out", 4)
    /\ f_results = <<FErr("refused"), FErr("refused"), FErr("refused"),
                     FErr("timed out")>>

\* The step is a call of Proto::recv.
RecvStep == recv_calls' = recv_calls + 1

\* C24: a call of recv::<M>() returns Ok only for a frame whose kind is M's,
\* and then the frame's content; a frame of another kind gives Unexpected
\* with expected = M's kind and actual = the frame's kind; a stream that has
\* ended gives EndOfStream and a failure of the stream gives Io.
C24_Recv ==
    /\ [][RecvStep =>
            IF frames = <<>>
            THEN recv_result' = MErr(Error("ProtoEndOfStream", <<>>))
            ELSE IF Head(frames).type = "error"
            THEN recv_result'.tag = "Err" /\ recv_result'.err.type = "ProtoIo"
            ELSE IF Head(frames).msg.kind = recv_kind'
            THEN /\ recv_result'.tag = "Ok"
                 /\ recv_result'.inner.type = recv_kind'
                 /\ recv_result'.inner.ok = Head(frames).msg.ok
                 /\ recv_result'.inner.val = Head(frames).msg.val
            ELSE recv_result' =
                    MErr(Error("Unexpected",
                               <<recv_kind', Head(frames).msg.kind>>))]_vars
    /\ [](recv_result.tag = "Ok" => recv_result.inner.type = recv_kind)

C24_Witness ==
    /\ recv_calls = 2
    /\ recv_kind = "Restarting"
    /\ recv_result = MErr(Error("Unexpected", <<"Restarting", "RecvProfile">>))

\* C25: the wrapper built from a value v of variant V has kind V; converting
\* it back to V gives v; converting it to another variant W fails with
\* KindMismatch{expected: W, actual: V}.
C25_MessageRoundTrip ==
    conv_target # "none" =>
        /\ conv_msg.kind = conv_inner.type
        /\ IF conv_target = conv_inner.type
           THEN conv_result = MOk(conv_inner)
           ELSE conv_result =
                   MErr(Error("Unexpected", <<conv_target, conv_inner.type>>))

C25_Witness ==
    /\ conv_inner = Inner("RecvProfile", TRUE, <<"Extracted">>)
    /\ conv_target = "DownloadBuild"
    /\ conv_result.tag = "Err"

JsonScalar(v) == v.t \in {"Bool", "Number", "String"}

\* C26 as stated: every PrefValue in request.prefs, which is what reaches
\* write_prefs, and every PrefValue parse_pref returns holds a JSON boolean,
\* number or string.
C26_PrefsAreScalars ==
    /\ \A i \in 1..Len(req_prefs) : JsonScalar(req_prefs[i][2].pref)
    /\ cli_result.tag = "Ok" => JsonScalar(cli_result.value.pref)

\* The text between the quotes of a JSON string, read back: "INVALID" marks
\* a quote or a backslash that is not escaped.
RECURSIVE Unescape(_)
Unescape(cs) ==
    IF cs = <<>> THEN <<>>
    ELSE IF Head(cs) = "\\"
         THEN IF Len(cs) >= 2 /\ cs[2] \in {"\\", "\""}
              THEN <<cs[2]>> \o Unescape(SubSeq(cs, 3, Len(cs)))
              ELSE <<"INVALID">>
    ELSE IF Head(cs) = "\"" THEN <<"INVALID">>
    ELSE <<Head(cs)>> \o Unescape(Tail(cs))

\* `text` is the JSON text of the value v.
IsJsonOf(text, v) ==
    CASE v.t = "String" ->
            /\ Len(text) >= 2
            /\ text[1] = "\"" /\ text[Len(text)] = "\""
            /\ Unescape(SubSeq(text, 2, Len(text) - 1)) = v.s
      [] v.t = "Bool" ->
            text = IF v.b THEN <<"t", "r", "u", "e">>
                   ELSE <<"f", "a", "l", "s", "e">>
      [] v = JNumber(-1, FALSE) -> text = <<"-", "1">>
      [] v = JNumber(0, TRUE) -> text = <<"0", ".", "0">>
      [] v.t = "Null" -> text = <<"n", "u", "l", "l">>
      [] v.t = "Array" -> text = <<"[", "]">>
      [] v.t = "Object" -> text = <<"{", "}">>
      [] OTHER -> FALSE

\* The j-th write of write_prefs is the part of a line it has to be.
ChunkIsRight(j) ==
    LET pair == req_prefs[((j - 1) \div 5) + 1]
        k == ((j - 1) % 5) + 1
    IN CASE k = 1 -> chunks[j] = <<"p", "r", "e", "f", "(", "\"">>
         [] k = 2 -> chunks[j] = pair[1]
         [] k = 3 -> chunks[j] = <<"\"", ",", " ">>
         [] k = 4 -> IsJsonOf(chunks[j], pair[2].pref)
         [] OTHER -> chunks[j] = <<")", ";", "\n">>

\* C27: what write_prefs has written is, pair by pair in the order of the
\* list, pref(" then the key, then ", then the JSON text of the value, then
\* );\n, and nothing else: when it returns Ok there are exactly these five
\* parts for every pair, and when a write fails what was written is a
\* beginning of them.
C27_WritePrefs ==
    pf_pc \in {"write", "ack", "done", "failed"} =>
        /\ Len(chunks) <= 5 * Len(req_prefs)
        /\ \A j \in 1..(5 * pf_i + pf_k) : ChunkIsRight(j)
        /\ pf_pc # "failed" => Len(chunks) = 5 * pf_i + pf_k
        /\ pf_pc \in {"ack", "done"} => Len(chunks) = 5 * Len(req_prefs)
        /\ (pf_pc = "failed" /\ req_prefs # <<>>) =>
              /\ Len(chunks) \in {5 * pf_i + pf_k, 5 * pf_i + pf_k + 1}
              /\ Len(chunks) = 5 * pf_i + pf_k + 1 =>
                    LET whole == PrefChunk(req_prefs[pf_i + 1][1],
                                           req_prefs[pf_i + 1][2], pf_k + 1)
                        part == chunks[Len(chunks)]
                    IN /\ Len(part) < Len(whole)
                       /\ part = SubSeq(whole, 1, Len(part))
        /\ \A j \in 1..Len(chunks) :
              (j <= 5 * pf_i + pf_k
               /\ (j - 1) % 5 = 3
               /\ req_prefs[((j - 1) \div 5) + 1][2].pref
                     = JString(<<"a", "\"">>))
                 => chunks[j] = <<"\"", "a", "\\", "\"", "\"">>

C27_Witness ==
    /\ pf_pc = "done"
    /\ Len(req_prefs) = 2
    /\ req_prefs[1] = <<<<"k">>, PrefValue(JString(<<"a", "\"">>))>>
    /\ req_prefs[2] = <<<<"a", ".", "b">>, PrefValue(JNumber(0, TRUE))>>
    /\ Flatten(chunks) =
          <<"p", "r", "e", "f", "(", "\"", "k", "\"", ",", " ",
            "\"", "a", "\\", "\"", "\"", ")", ";", "\n",
            "p", "r", "e", "f", "(", "\"", "a", ".", "b", "\"", ",", " ",
            "0", ".", "0", ")", ";", "\n">>

\* C28: the write-prefs step leaves the bytes user.js had in place and puts
\* what write_prefs writes after them, creating the file when it was absent;
\* with an empty prefs list it neither creates nor changes user.js and goes
\* on to send WritePrefs{Ok}.
C28_AppendToUserJs ==
    /\ [](pf_pc \in {"open", "write", "ack", "done", "failed"} =>
            /\ user_js.bytes = user_js0.bytes \o Flatten(chunks)
            /\ user_js0.exists => user_js.exists
            /\ pf_pc \in {"write", "ack", "done"} /\ req_prefs # <<>>
                  => user_js.exists
            /\ req_prefs = <<>> => user_js = user_js0 /\ pf_pc # "failed"
            /\ pf_pc = "done" => pf_ack = <<RunnerMsg("WritePrefs", TRUE, <<>>)>>)
    /\ [][(pf_pc = "open" /\ req_prefs = <<>>) => pf_pc' = "ack"]_vars
    /\ [][pf_pc = "ack"
            => /\ pf_ack' = <<RunnerMsg("WritePrefs", TRUE, <<>>)>>
               /\ user_js' = user_js]_vars

C28_Witness ==
    /\ pf_pc = "done"
    /\ user_js0 = File(<<"/", "/", "x", "\n">>)
    /\ user_js.bytes =
          <<"/", "/", "x", "\n", "p", "r", "e", "f", "(", "\"", "k", "\"",
            ",", " ", "t", "r", "u", "e", ")", ";", "\n">>


PhasesSucceeded == wreq.type = "new" /\ wpc \in {"write_prefs", "restart"}
Transient == {"firefox.zip", "profile.zip", "unzipped_profile"}

BelowTopLevel(stats, name) ==
    IF stats.top_level_dir = <<>> THEN name
    ELSE Drop(name, Len(stats.top_level_dir[1]))

\* C32: after a successful profile phase profile/ is what was extracted to
\* unzipped_profile/<top_level_dir> (to unzipped_profile/ when none is
\* reported), so every file of the archive is in profile/ under its name
\* below the top-level directory and the renamed directory is gone; and a
\* reported top_level_dir is a directory of the extraction that contains
\* every entry of the archive.
C32_ProfileFromArchive ==
    /\ (zpc = "done" /\ zresult.tag = "Ok") =>
          /\ \A i \in 1..Len(zarchive) :
                ~zarchive[i].is_dir =>
                    IsFile(zfs, Join(ProfileDir,
                                     BelowTopLevel(zstats, zarchive[i].name)))
          /\ ~Exists(zfs, UnzippedProfileDirJoined(zstats))
    /\ (zpc = "rename" /\ zstats.top_level_dir # <<>>) =>
          /\ IsDir(zfs, Join(UnzipPath, zstats.top_level_dir[1]))
          /\ \A i \in 1..Len(zarchive) :
                IsPrefix(zstats.top_level_dir[1], zarchive[i].name)

\* A handler is between its first step and its return.
HandlerRunning == wpc \notin {"idle", "done"}

\* C33: fxrunner serves its connections one at a time: a connection is
\* accepted only while no handler is running, a handler runs only while the
\* loop waits in handle_request, and the session root changes only then (by
\* the handler, or by the sweep that follows its return).
C33_OneHandler ==
    /\ [](HandlerRunning => mpc = "handling")
    /\ [][conns' # conns =>
            (mpc = "accept" /\ ~HandlerRunning /\ conns' = conns + 1)]_vars
    /\ [][fsvars' # fsvars => mpc = "handling"]_vars
    /\ [][(fsvars' # fsvars /\ ~HandlerRunning) => mpc' = "accept"]_vars
C33_Witness ==
    /\ conns = 2
    /\ HandlerRunning
    /\ cleanup
    /\ HasEntry(files, wsession, "firefox.zip")

\* A new-session handler has returned after initiate_restart returned Ok: no
\* step failed, and the last ack sent is WritePrefs (the send of Restarting
\* failed) or Restarting.
RestartInitiated ==
    /\ wreq.type = "new"
    /\ wpc = "done"
    /\ wfail = NoFail
    /\ wlog # <<>>
    /\ Last(wlog).kind \in {"WritePrefs", "Restarting"}

NewSessionReturnedOk ==
    creq.type = "new" /\ cpc = "done" /\ cresult.tag = "Ok"

\* C35: when the recorder's new_session returns Ok(id), the worker's handler
\* of that connection has returned Ok(true), id is the id the worker
\* allocated and sent in its NewSessionResponse, and <root>/id/ exists from
\* then on until the next connection.
C35_NewSessionOk ==
    NewSessionReturnedOk =>
        /\ wpc = "done"
        /\ wresult = Ok(TRUE)
        /\ wsession \in GeneratedIds
        /\ cresult = COk(<<wsession.name>>)
        /\ wlog[1] = OkAck("NewSessionResponse", <<wsession.name>>)
        /\ wsession \in sessions
        /\ HasEntry(files, wsession, "firefox/firefox.exe")
C35_Witness ==
    /\ NewSessionReturnedOk
    /\ skip_restart
    /\ mpc = "accept"
    /\ conns = 1

\* The worker is blocked in a read: recv::<Session> on an empty open stream,
\* or the raw copy short of profile_size bytes on an open stream.
WorkerWaits ==
    \/ wpc = "recv_session" /\ c2w = <<>> /\ ~cclosed
    \/ wpc = "recv_profile_copy" /\ ~CopyCanEnd
\* The recorder is blocked in a recv on an empty open stream.
RecorderWaits == cpc \in RecvStates /\ w2c = <<>> /\ ~wclosed

\* C36: in a new-session exchange the recorder and the worker are never both
\* blocked waiting to receive from each other, also when the profile file
\* holds fewer bytes at send time than the profile_size announced.
C36_NoMutualWait == ~(creq.type = "new" /\ WorkerWaits /\ RecorderWaits)

\* C37: when the recorder or the worker unwraps its framed transport for the
\* raw profile transfer, no frame addressed to it is in flight or buffered,
\* so the unwrap drops nothing, and no raw profile byte is read as a frame
\* after the rewrap.
C37_UnwrapClean ==
    /\ [][(cpc = "send_profile" /\ cpc' # cpc) =>
            (w2c = <<>> /\ cbuffered = 0 /\ w2c' = w2c)]_vars
    /\ [][(wpc = "recv_profile_raw" /\ wpc' # wpc) =>
            \A i \in 1..Len(c2w) : c2w[i] = RawByte]_vars
    /\ [][(Len(c2w') < Len(c2w) /\ conns' = conns
             /\ wpc # "recv_profile_copy") => Head(c2w) # RawByte]_vars

\* C38: on one connection the worker sends at most one ack with an Err
\* payload, that ack is the last message it sends, and the handler has
\* returned with an error once it is sent.
C38_OneErrAck ==
    /\ Len(ErrAcks(wlog)) <= 1
    /\ ErrAcks(wlog) # <<>> =>
          /\ ~Last(wlog).ok
          /\ wpc = "done"
          /\ wresult.tag = "Err"
          /\ wclosed
C38_Witness ==
    /\ Len(ErrAcks(wlog)) = 1
    /\ Len(wlog) > 3
    /\ Last(wlog).kind = "RecvProfile"
    /\ mpc = "accept"

AcceptAfterRestart ==
    mpc = "accept" /\ conns > 0 /\ wresult.tag = "Ok" /\ wresult.restart
\* fxrunner waits to accept and the handler of the last connection returned
\* Ok(false) or an error.
AcceptAfterSweep ==
    mpc = "accept" /\ conns > 0 /\ ~(wresult.tag = "Ok" /\ wresult.restart)

C40_ZeroRetries ==
    (rpc # "off" /\ retries = 0) =>
        /\ rpc # "panicked"
        /\ f_results = <<>>
        /\ slept = <<>>
        /\ rpc = "returned" => rresult.tag = "Err"

====
